---- MODULE Spec2Model ----
\* A model of llean/search.py (the goal parser, the tactic-candidate
\* generator, the SearchGraph trace and the depth_first_search driver) and of
\* llean/tactic_models.py (parse_tactic and to_string).
\*
\* Spec and FairSpec run depth_first_search against a backend that answers
\* as it likes; SpecPair runs it with a trace and then again without one;
\* SpecGraph calls a SearchGraph directly, SpecGen calls
\* generate_tactic_candidates and _parse_goal, SpecTactic calls parse_tactic.
\*
\* Text is modelled as a sequence of characters, each character being a
\* one-element TLA+ string; the non-ASCII characters of the source are
\* written with ASCII names (TURNSTILE for the turnstile sign, LARROW for the
\* left arrow, and so on), each still ONE character of the text.
EXTENDS Integers, Sequences, FiniteSets, TLC

\* ---------------------------------------------------------------------
\* Bounds of the model
\* ---------------------------------------------------------------------
\* Largest number of distinct proof-state ids the backend hands out.
NumStates == 6
\* Largest value of the max_depth argument.
MaxDepthBound == 3
\* Largest number of proof states whose first goal yields several candidates.
MaxBranching == 1

\* ---------------------------------------------------------------------
\* Characters and Python string methods
\* ---------------------------------------------------------------------
NL == "\n"
TURNSTILE == "|-"
LARROW == "<-"
RARROW == "->"
FORALL == "forall"
EXISTS == "exists"
IFF == "<->"
NEQ == "!="
LEQ == "<="
GEQ == ">="

IsSpace(c) == c \in {" ", "\t", NL}

RECURSIVE lstrip(_)
lstrip(s) == IF s = <<>> THEN s
             ELSE IF IsSpace(Head(s)) THEN lstrip(Tail(s)) ELSE s

RECURSIVE rstrip(_)
rstrip(s) == IF s = <<>> THEN s
             ELSE IF IsSpace(s[Len(s)]) THEN rstrip(SubSeq(s, 1, Len(s) - 1)) ELSE s

strip(s) == rstrip(lstrip(s))

startswith(s, p) == Len(s) >= Len(p) /\ SubSeq(s, 1, Len(p)) = p

\* Python's `p in s` for strings: p occurs as a substring of s.
contains(s, p) == \E i \in 1..(Len(s) - Len(p) + 1) : SubSeq(s, i, i + Len(p) - 1) = p

\* Index of the first occurrence of character c in s (0 when absent).
find(s, c) == IF \E i \in 1..Len(s) : s[i] = c
              THEN CHOOSE i \in 1..Len(s) : s[i] = c /\ \A j \in 1..(i - 1) : s[j] # c
              ELSE 0

\* str.replace(a, b) for single characters.
replace(s, a, b) == [i \in 1..Len(s) |-> IF s[i] = a THEN b ELSE s[i]]

\* str.splitlines(): split at line breaks, no empty last line.
RECURSIVE splitlines(_)
splitlines(text) ==
    IF text = <<>> THEN <<>>
    ELSE LET k == find(text, NL) IN
         IF k = 0 THEN <<text>>
         ELSE <<SubSeq(text, 1, k - 1)>> \o splitlines(SubSeq(text, k + 1, Len(text)))

\* str.split() without argument: the maximal runs of non-space characters.
RECURSIVE split(_)
split(s) ==
    LET t == lstrip(s) IN
    IF t = <<>> THEN <<>>
    ELSE LET ends == {i \in 1..Len(t) : IsSpace(t[i])}
             k == IF ends = {} THEN Len(t) + 1
                  ELSE CHOOSE i \in ends : \A j \in ends : i <= j
         IN <<SubSeq(t, 1, k - 1)>> \o split(SubSeq(t, k, Len(t)))

\* ---------------------------------------------------------------------
\* _parse_goal
\* ---------------------------------------------------------------------
DisallowedTokens ==
    {<<RARROW>>, <<FORALL>>, <<EXISTS>>, <<IFF>>, <<NEQ>>, <<LEQ>>, <<GEQ>>,
     <<TURNSTILE>>, <<":", "=">>}

\* The loop body with the disallowed-token test placed before the equality
\* test.
ParseLine_tokens_first(acc, raw_line) ==
    LET line == strip(raw_line) IN
    IF acc.stop THEN acc
    ELSE IF line = <<>> \/ startswith(line, <<"c", "a", "s", "e">>) THEN acc
    ELSE IF startswith(line, <<TURNSTILE>>) THEN [acc EXCEPT !.stop = TRUE]
    ELSE IF ~contains(line, <<":">>) THEN acc
    ELSE LET k == find(line, ":")
             name == SubSeq(line, 1, k - 1)
             type_str == strip(SubSeq(line, k + 1, Len(line)))
             raw_names == split(replace(name, ",", " "))
         IN IF raw_names = <<>> THEN acc
            ELSE IF \E token \in DisallowedTokens : contains(type_str, token) THEN acc
            ELSE IF contains(type_str, <<"=">>)
                 THEN [acc EXCEPT !.eqs = @ \o raw_names]
            ELSE [acc EXCEPT !.induct = @ \o raw_names]

\* The loop body of _parse_goal on one raw line, given the names gathered so
\* far; `stop` is set by the `break` on the turnstile line.
ParseLine(acc, raw_line) ==
    LET line == strip(raw_line) IN
    IF acc.stop THEN acc
    ELSE IF line = <<>> \/ startswith(line, <<"c", "a", "s", "e">>) THEN acc
    ELSE IF startswith(line, <<TURNSTILE>>) THEN [acc EXCEPT !.stop = TRUE]
    ELSE IF ~contains(line, <<":">>) THEN acc
    ELSE LET k == find(line, ":")
             name == SubSeq(line, 1, k - 1)
             type_str == strip(SubSeq(line, k + 1, Len(line)))
             raw_names == split(replace(name, ",", " "))
         IN IF raw_names = <<>> THEN acc
            ELSE IF contains(type_str, <<"=">>)
                 THEN [acc EXCEPT !.eqs = @ \o raw_names]
            ELSE IF \E token \in DisallowedTokens : contains(type_str, token) THEN acc
            ELSE [acc EXCEPT !.induct = @ \o raw_names]

RECURSIVE ParseLines(_, _)
ParseLines(acc, lines) ==
    IF lines = <<>> THEN acc
    ELSE ParseLines(ParseLine(acc, Head(lines)), Tail(lines))

_parse_goal(goal) ==
    LET r == ParseLines([eqs |-> <<>>, induct |-> <<>>, stop |-> FALSE], splitlines(goal))
    IN [eqs |-> r.eqs, induct |-> r.induct]

\* ---------------------------------------------------------------------
\* generate_tactic_candidates
\* ---------------------------------------------------------------------
InSeq(x, s) == \E i \in 1..Len(s) : s[i] = x

RECURSIVE Unique(_, _)
Unique(names, acc) ==
    IF names = <<>> THEN acc
    ELSE Unique(Tail(names),
                IF InSeq(Head(names), acc) THEN acc ELSE Append(acc, Head(names)))

RECURSIVE Flatten(_)
Flatten(ss) == IF ss = <<>> THEN <<>> ELSE Head(ss) \o Flatten(Tail(ss))

Rfl == <<"r", "f", "l">>
RwFwd(name) == <<"r", "w", " ", "[">> \o name \o <<"]">>
RwBwd(name) == <<"r", "w", " ", "[", LARROW, " ">> \o name \o <<"]">>
NthPrefix(position) ==
    <<"n", "t", "h", "_", "r", "e", "w", "r", "i", "t", "e", " ", ToString(position), " ">>
NthFwd(position, name) == NthPrefix(position) \o <<"[">> \o name \o <<"]">>
NthBwd(position, name) == NthPrefix(position) \o <<"[", LARROW, " ">> \o name \o <<"]">>
Induction(name) == <<"i", "n", "d", "u", "c", "t", "i", "o", "n", " ">> \o name

\* The generator with the name loop of nth_rewrite outermost.
generate_tactic_candidates_by_name(goal, available_tactics, lemmas) ==
    LET available == {available_tactics[i] : i \in 1..Len(available_tactics)}
        parsed == _parse_goal(goal)
        lemma_list == SelectSeq(lemmas, LAMBDA lemma : lemma # <<>>)
        rewrite_names == Unique(parsed.eqs \o lemma_list, <<>>)
        rws == Flatten([i \in 1..Len(rewrite_names) |->
                            <<RwFwd(rewrite_names[i]), RwBwd(rewrite_names[i])>>])
        nths == Flatten([i \in 1..Len(rewrite_names) |->
                            <<NthFwd(1, rewrite_names[i]), NthBwd(1, rewrite_names[i]),
                              NthFwd(2, rewrite_names[i]), NthBwd(2, rewrite_names[i]),
                              NthFwd(3, rewrite_names[i]), NthBwd(3, rewrite_names[i])>>])
        inds == [i \in 1..Len(parsed.induct) |-> Induction(parsed.induct[i])]
    IN (IF "rfl" \in available THEN <<Rfl>> ELSE <<>>)
       \o (IF "rw" \in available THEN rws ELSE <<>>)
       \o (IF "nth_rewrite" \in available THEN nths ELSE <<>>)
       \o (IF "induction" \in available THEN inds ELSE <<>>)

generate_tactic_candidates(goal, available_tactics, lemmas) ==
    LET available == {available_tactics[i] : i \in 1..Len(available_tactics)}
        parsed == _parse_goal(goal)
        lemma_list == SelectSeq(lemmas, LAMBDA lemma : lemma # <<>>)
        rewrite_names == Unique(parsed.eqs \o lemma_list, <<>>)
        rws == Flatten([i \in 1..Len(rewrite_names) |->
                            <<RwFwd(rewrite_names[i]), RwBwd(rewrite_names[i])>>])
        nth(position) == Flatten([i \in 1..Len(rewrite_names) |->
                            <<NthFwd(position, rewrite_names[i]),
                              NthBwd(position, rewrite_names[i])>>])
        inds == [i \in 1..Len(parsed.induct) |-> Induction(parsed.induct[i])]
    IN (IF "rfl" \in available THEN <<Rfl>> ELSE <<>>)
       \o (IF "rw" \in available THEN rws ELSE <<>>)
       \o (IF "nth_rewrite" \in available THEN nth(1) \o nth(2) \o nth(3) ELSE <<>>)
       \o (IF "induction" \in available THEN inds ELSE <<>>)

\* ---------------------------------------------------------------------
\* SearchNode / SearchGraph
\* ---------------------------------------------------------------------
\* Python's None where a state id is expected (state ids are numerals).
None == "None"
\* dict.get(key) returning None where a depth is expected.
NoDepth == -1

EmptyMap == [k \in {} |-> 0]
Min(a, b) == IF a <= b THEN a ELSE b

SearchNode(state_id, goals, depth) ==
    [state_id |-> state_id, goals |-> goals, depth |-> depth,
     tactics_tried |-> <<>>, successes |-> <<>>, failures |-> <<>>]

SearchGraph == [nodes |-> EmptyMap, solutions |-> <<>>, root |-> None]

\* record_node that takes the depth of the latest call.
record_node_latest(g, state_id, goals, depth) ==
    IF state_id \notin DOMAIN g.nodes
    THEN [g EXCEPT !.nodes = (state_id :> SearchNode(state_id, goals, depth)) @@ g.nodes,
                   !.root = IF depth = 0 /\ g.root = None THEN state_id ELSE g.root]
    ELSE [g EXCEPT !.nodes[state_id].goals = goals,
                   !.nodes[state_id].depth = depth]

\* record_node that keeps the goals of a node it finds.
record_node_stale(g, state_id, goals, depth) ==
    IF state_id \notin DOMAIN g.nodes
    THEN [g EXCEPT !.nodes = (state_id :> SearchNode(state_id, goals, depth)) @@ g.nodes,
                   !.root = IF depth = 0 /\ g.root = None THEN state_id ELSE g.root]
    ELSE [g EXCEPT !.nodes[state_id].depth = Min(@, depth)]

record_node(g, state_id, goals, depth) ==
    IF state_id \notin DOMAIN g.nodes
    THEN [g EXCEPT !.nodes = (state_id :> SearchNode(state_id, goals, depth)) @@ g.nodes,
                   !.root = IF depth = 0 /\ g.root = None THEN state_id ELSE g.root]
    ELSE [g EXCEPT !.nodes[state_id].goals = goals,
                   !.nodes[state_id].depth = Min(@, depth)]

\* record_attempt without its `elif not success` branch.
record_attempt_unlogged(g, state_id, tactic, success, new_state) ==
    LET nodes0 == IF state_id \in DOMAIN g.nodes THEN g.nodes
                  ELSE (state_id :> SearchNode(state_id, <<>>, 0)) @@ g.nodes
        node == nodes0[state_id]
        tried == [node EXCEPT !.tactics_tried = Append(@, tactic)]
        node1 == IF success /\ new_state # None
                 THEN [tried EXCEPT !.successes = Append(@, <<tactic, new_state>>)]
                 ELSE tried
    IN [g EXCEPT !.nodes = [nodes0 EXCEPT ![state_id] = node1]]

record_attempt(g, state_id, tactic, success, new_state) ==
    LET nodes0 == IF state_id \in DOMAIN g.nodes THEN g.nodes
                  ELSE (state_id :> SearchNode(state_id, <<>>, 0)) @@ g.nodes
        node == nodes0[state_id]
        tried == [node EXCEPT !.tactics_tried = Append(@, tactic)]
        node1 == IF success /\ new_state # None
                 THEN [tried EXCEPT !.successes = Append(@, <<tactic, new_state>>)]
                 ELSE IF ~success
                 THEN [tried EXCEPT !.failures = Append(@, tactic)]
                 ELSE tried
    IN [g EXCEPT !.nodes = [nodes0 EXCEPT ![state_id] = node1]]

\* ---------------------------------------------------------------------
\* The level context and the backend
\* ---------------------------------------------------------------------
\* Goal texts the backend can show.
GoalTwice == <<"n", " ", "n", " ", ":", " ", "N", NL, TURNSTILE, " ", "n", " ", "=", " ", "n">>
GoalPlain == <<TURNSTILE, " ", "T">>
GoalTexts == {GoalTwice, GoalPlain}
\* Goal lists of a proof state: proved, or one open goal.
GoalLists == {<<>>} \cup {<<g>> : g \in GoalTexts}

\* context.tactics (names) and context.lemmas of the loaded level.
LevelTactics == <<"rfl", "induction">>
LevelLemmas == <<>>

\* generate_tactic_candidates(goal_str, available, rewrite_lemmas), tabulated
\* over the goal texts of the backend.
Candidates ==
    [goal_str \in GoalTexts |->
        generate_tactic_candidates(goal_str, LevelTactics, LevelLemmas)]

\* The caller's state handle and the probe tactic.
ProbeHandle == "0"
Skip == <<"s", "k", "i", "p">>

MaxDepths == 0..MaxDepthBound

\* The graphs a caller can pass as trace: a fresh one, or one that an earlier
\* search has already written to.
UsedGraph ==
    record_attempt(record_node(SearchGraph, "1", <<GoalPlain>>, 0), "1", Rfl, FALSE, None)
Traces == {SearchGraph, UsedGraph}

VARIABLES
    pc,              \* "probe", "loop", "expand", "done", "raised"; "idle" when not run
    max_depth,       \* argument max_depth
    tracing,         \* trace is not None
    twin,            \* the log of the traced run that the current run repeats
    trace0,          \* the trace argument as the caller passed it
    trace,           \* the caller's SearchGraph (untouched when not tracing)
    root_state, state_goals, solutions, stack, state_depth, explored_edges,
    state_id, sequence, candidates, idx, children,   \* the popped item and its for-loop
    result,          \* the returned list (None before the return)
    backend_goals,   \* backend: goal list of each proof state it has produced
    kills,           \* backend: number of server.kill() calls
    requests,        \* backend: the ProofStep requests received, with their answers
    minArrival,      \* history: least path length at which each state was reached
    expansions,      \* history: the expansions, each with minArrival at that time
    pops,            \* history: the items popped from the stack, in order
    graph, calls,    \* a SearchGraph under direct calls, and the calls made
    gen_in, gen_out, \* arguments of generate_tactic_candidates, the lists returned
    names_out,       \* what the calls of _parse_goal on the goal of gen_in returned
    parse_in, parse_out \* argument of parse_tactic, what the calls on it returned

vars == <<pc, max_depth, tracing, twin, trace0, trace, root_state, state_goals, solutions, stack,
          state_depth, explored_edges, state_id, sequence, candidates, idx, children,
          result, backend_goals, kills, requests, minArrival, expansions, pops,
          graph, calls, gen_in, gen_out, names_out, parse_in, parse_out>>

\* The variables the search does not touch.
aside == <<graph, calls, gen_in, gen_out, names_out, parse_in, parse_out>>
config == <<max_depth, tracing, twin, trace0, aside>>
locals == <<root_state, state_goals, solutions, stack, state_depth, explored_edges>>
item == <<state_id, sequence, candidates, idx, children>>
history == <<minArrival, expansions, pops>>
driver == <<pc, max_depth, tracing, twin, trace0, trace, locals, item, result, backend_goals,
            kills, requests, history>>

\* No direct call on a graph, no generator or parser input.
AsideIdle ==
    /\ graph = SearchGraph
    /\ calls = <<>>
    /\ gen_in = None
    /\ gen_out = <<>>
    /\ names_out = <<>>
    /\ parse_in = None
    /\ parse_out = <<>>

Init ==
    /\ AsideIdle
    /\ pc = "probe"
    /\ max_depth \in MaxDepths
    /\ tracing \in BOOLEAN
    /\ twin = <<>>
    /\ trace0 \in IF tracing THEN Traces ELSE {SearchGraph}
    /\ trace = trace0
    /\ root_state = None
    /\ state_goals = EmptyMap
    /\ solutions = <<>>
    /\ stack = <<>>
    /\ state_depth = EmptyMap
    /\ explored_edges = {}
    /\ state_id = None
    /\ sequence = <<>>
    /\ candidates = <<>>
    /\ idx = 0
    /\ children = <<>>
    /\ result = None
    /\ backend_goals = <<>>
    /\ kills = 0
    /\ requests = <<>>
    /\ minArrival = EmptyMap
    /\ expansions = <<>>
    /\ pops = <<>>

\* str(response.proof_state)
str(n) == ToString(n)

\* dict.get(key) on a depth map.
Get(m, k) == IF k \in DOMAIN m THEN m[k] ELSE NoDepth

\* The successful answers the backend can give: a proof state it has already
\* produced, with that state's goals, or the next new one with any goal list.
\* Proof-state ids are opaque, so new ones are numbered consecutively.
Branching(gl) ==
    gl # <<>> /\ Len(Candidates[gl[1]]) > 1

NewGoalLists ==
    IF Cardinality({k \in 1..Len(backend_goals) : Branching(backend_goals[k])}) < MaxBranching
    THEN GoalLists
    ELSE {gl \in GoalLists : ~Branching(gl)}

Answers ==
    {[id |-> k, goals |-> backend_goals[k]] : k \in 1..Len(backend_goals)}
    \cup (IF Len(backend_goals) < NumStates
          THEN {[id |-> Len(backend_goals) + 1, goals |-> gl] : gl \in NewGoalLists}
          ELSE {})

Produce(ans) ==
    backend_goals' = IF ans.id > Len(backend_goals)
                     THEN Append(backend_goals, ans.goals) ELSE backend_goals

Request(state, tactic, answer, new, goals) ==
    [state |-> state, tactic |-> tactic, depth |-> Len(sequence),
     answer |-> answer, new |-> new, goals |-> goals, killed |-> kills > 0]

\* server.run(ProofStep(...)): the backend logs what it receives and answers.
Run(state, tactic, answer, new, goals) ==
    requests' = Append(requests, Request(state, tactic, answer, new, goals))

Arrive(s, d) ==
    minArrival' = IF s \in DOMAIN minArrival
                  THEN [minArrival EXCEPT ![s] = Min(@, d)]
                  ELSE (s :> d) @@ minArrival

\* The search without its finally block.
KillSkipped == UNCHANGED kills

\* finally: context.server.kill()
Kill == kills' = kills + 1

\* ---------------------------------------------------------------------
\* depth_first_search
\* ---------------------------------------------------------------------
ProbeRaise ==
    /\ pc = "probe"
    /\ Run(ProbeHandle, Skip, "raise", None, <<>>)
    /\ Kill
    /\ pc' = "raised"
    /\ UNCHANGED <<config, trace, locals, item, result, backend_goals, history>>

\* A probe failure that records the handle as a node before returning.
ProbeFailRecorded ==
    /\ pc = "probe"
    /\ Run(ProbeHandle, Skip, "error", None, <<>>)
    /\ trace' = IF tracing THEN record_node(trace, ProbeHandle, <<>>, 0) ELSE trace
    /\ result' = <<>>
    /\ Kill
    /\ pc' = "done"
    /\ UNCHANGED <<config, locals, item, backend_goals, history>>

ProbeFail ==
    /\ pc = "probe"
    /\ Run(ProbeHandle, Skip, "error", None, <<>>)
    /\ result' = <<>>
    /\ Kill
    /\ pc' = "done"
    /\ UNCHANGED <<config, trace, locals, item, backend_goals, history>>

ProbeOk ==
    /\ pc = "probe"
    /\ \E ans \in Answers :
         LET root == str(ans.id) IN
         /\ Produce(ans)
         /\ Run(ProbeHandle, Skip, "ok", root, ans.goals)
         /\ root_state' = root
         /\ state_goals' = (root :> ans.goals)
         /\ trace' = IF tracing THEN record_node(trace, root, ans.goals, 0) ELSE trace
         /\ solutions' = <<>>
         /\ stack' = <<[state |-> root, path |-> <<>>]>>
         /\ state_depth' = (root :> 0)
         /\ explored_edges' = {}
         /\ Arrive(root, 0)
    /\ pc' = "loop"
    /\ UNCHANGED <<config, item, result, kills, expansions, pops>>

Top == stack[Len(stack)]

Popped == SubSeq(stack, 1, Len(stack) - 1)

\* Depth limits that are off by one, either way.
TooDeepLate(len, limit) == len > limit + 1
TooDeepEarly(len, limit) == len >= limit

TooDeep(len, limit) == len > limit

\* The pop test with "less than or equal".
DominatedOrEqual(recorded_depth, len) == recorded_depth # NoDepth /\ recorded_depth <= len

Dominated(recorded_depth, len) == recorded_depth # NoDepth /\ recorded_depth < len

Improves(recorded_depth, len) == recorded_depth = NoDepth \/ recorded_depth > len

\* while stack: ... falls through to `return solutions`
LoopExit ==
    /\ pc = "loop"
    /\ stack = <<>>
    /\ result' = solutions
    /\ Kill
    /\ pc' = "done"
    /\ UNCHANGED <<config, trace, locals, item, backend_goals, requests, history>>

\* The two `continue` exits of a pop: over the depth limit, or dominated.
PopDiscard ==
    /\ pc = "loop"
    /\ stack # <<>>
    /\ LET goals == IF Top.state \in DOMAIN state_goals THEN state_goals[Top.state] ELSE <<>>
       IN \/ TooDeep(Len(Top.path), max_depth)
          \/ /\ goals # <<>>
             /\ Dominated(Get(state_depth, Top.state), Len(Top.path))
    /\ stack' = Popped
    /\ state_id' = Top.state
    /\ sequence' = Top.path
    /\ pops' = Append(pops, Top)
    /\ UNCHANGED <<pc, config, trace, root_state, state_goals, solutions, state_depth,
                   explored_edges, candidates, idx, children, result, backend_goals,
                   kills, requests, minArrival, expansions>>

\* A variant that returns on the first solution only when no trace is given.
PopSolvedUntraced ==
    /\ pc = "loop"
    /\ stack # <<>>
    /\ ~TooDeep(Len(Top.path), max_depth)
    /\ (IF Top.state \in DOMAIN state_goals THEN state_goals[Top.state] ELSE <<>>) = <<>>
    /\ stack' = Popped
    /\ state_id' = Top.state
    /\ sequence' = Top.path
    /\ solutions' = Append(solutions, Top.path)
    /\ trace' = IF tracing THEN [trace EXCEPT !.solutions = Append(@, Top.path)] ELSE trace
    /\ result' = IF tracing THEN result ELSE solutions'
    /\ kills' = IF tracing THEN kills ELSE kills + 1
    /\ pc' = IF tracing THEN pc ELSE "done"
    /\ pops' = Append(pops, Top)
    /\ UNCHANGED <<config, root_state, state_goals, state_depth, explored_edges,
                   candidates, idx, children, backend_goals, requests, minArrival,
                   expansions>>

\* The exhaustive variant: a solution is noted and the loop goes on.
PopSolvedOn ==
    /\ pc = "loop"
    /\ stack # <<>>
    /\ ~TooDeep(Len(Top.path), max_depth)
    /\ (IF Top.state \in DOMAIN state_goals THEN state_goals[Top.state] ELSE <<>>) = <<>>
    /\ stack' = Popped
    /\ state_id' = Top.state
    /\ sequence' = Top.path
    /\ solutions' = Append(solutions, Top.path)
    /\ trace' = IF tracing THEN [trace EXCEPT !.solutions = Append(@, Top.path)] ELSE trace
    /\ pops' = Append(pops, Top)
    /\ UNCHANGED <<pc, config, root_state, state_goals, state_depth, explored_edges,
                   candidates, idx, children, result, backend_goals, kills, requests,
                   minArrival, expansions>>

\* The popped state has no open goal: report the path and return.
PopSolved ==
    /\ pc = "loop"
    /\ stack # <<>>
    /\ ~TooDeep(Len(Top.path), max_depth)
    /\ (IF Top.state \in DOMAIN state_goals THEN state_goals[Top.state] ELSE <<>>) = <<>>
    /\ stack' = Popped
    /\ state_id' = Top.state
    /\ sequence' = Top.path
    /\ solutions' = Append(solutions, Top.path)
    /\ trace' = IF tracing THEN [trace EXCEPT !.solutions = Append(@, Top.path)] ELSE trace
    /\ result' = solutions'
    /\ Kill
    /\ pc' = "done"
    /\ pops' = Append(pops, Top)
    /\ UNCHANGED <<config, root_state, state_goals, state_depth, explored_edges,
                   candidates, idx, children, backend_goals, requests, minArrival,
                   expansions>>

\* The popped state is expanded: its candidates are generated.
PopExpand ==
    /\ pc = "loop"
    /\ stack # <<>>
    /\ ~TooDeep(Len(Top.path), max_depth)
    /\ Top.state \in DOMAIN state_goals
    /\ state_goals[Top.state] # <<>>
    /\ ~Dominated(Get(state_depth, Top.state), Len(Top.path))
    /\ stack' = Popped
    /\ state_id' = Top.state
    /\ sequence' = Top.path
    /\ state_depth' = IF Improves(Get(state_depth, Top.state), Len(Top.path))
                      THEN (Top.state :> Len(Top.path)) @@ state_depth
                      ELSE state_depth
    /\ candidates' = Candidates[state_goals[Top.state][1]]
    /\ children' = <<>>
    /\ idx' = 1
    /\ expansions' = Append(expansions,
                            [state |-> Top.state, depth |-> Len(Top.path),
                             min |-> minArrival[Top.state]])
    /\ pc' = "expand"
    /\ pops' = Append(pops, Top)
    /\ UNCHANGED <<config, trace, root_state, state_goals, solutions, explored_edges,
                   result, backend_goals, kills, requests, minArrival>>

InLoop == pc = "expand" /\ idx <= Len(candidates)
tactic == candidates[idx]

\* An edge set that is never consulted.
ExploredNever(edge_key, edges) == FALSE

Explored(edge_key, edges) == edge_key \in edges

\* Dominance checks on a new child: comparison inverted, and check dropped.
ChildDominatedInverted(recorded_child, new_depth) ==
    recorded_child # NoDepth /\ recorded_child >= new_depth
ChildDominatedNever(recorded_child, new_depth) == FALSE

\* The check on a new child with "less than".
ChildDominatedStrict(recorded_child, new_depth) ==
    recorded_child # NoDepth /\ recorded_child < new_depth

ChildDominated(recorded_child, new_depth) ==
    recorded_child # NoDepth /\ recorded_child <= new_depth

\* A child path that drops the path to its parent.
ExtendFromRoot(path, t) == <<t>>

\* sequence + [tactic]
Extend(path, t) == Append(path, t)

\* A candidate loop that ends after the candidate at hand.
AdvanceBreak == idx' = Len(candidates) + 1

\* A candidate loop that stays on its candidate.
AdvanceStuck == UNCHANGED idx

\* for tactic in candidates: on to the next candidate
Advance == idx' = idx + 1

\* if edge_key in explored_edges: continue
StepSkip ==
    /\ InLoop
    /\ Explored(<<state_id, tactic>>, explored_edges)
    /\ Advance
    /\ UNCHANGED <<pc, config, trace, locals, state_id, sequence, candidates, children,
                   result, backend_goals, kills, requests, history>>

\* The backend call raises: the exception leaves through the finally block.
StepRaise ==
    /\ InLoop
    /\ ~Explored(<<state_id, tactic>>, explored_edges)
    /\ explored_edges' = explored_edges \cup {<<state_id, tactic>>}
    /\ Run(state_id, tactic, "raise", None, <<>>)
    /\ Kill
    /\ pc' = "raised"
    /\ UNCHANGED <<config, trace, root_state, state_goals, solutions, stack, state_depth,
                   item, result, backend_goals, history>>

\* The backend answers LeanError or a response with errors.
StepFail ==
    /\ InLoop
    /\ ~Explored(<<state_id, tactic>>, explored_edges)
    /\ explored_edges' = explored_edges \cup {<<state_id, tactic>>}
    /\ Run(state_id, tactic, "error", None, <<>>)
    /\ trace' = IF tracing THEN record_attempt(trace, state_id, tactic, FALSE, None)
                ELSE trace
    /\ Advance
    /\ UNCHANGED <<pc, config, root_state, state_goals, solutions, stack, state_depth,
                   state_id, sequence, candidates, children, result, backend_goals,
                   kills, history>>

\* The backend accepts the tactic and answers with a proof state.
StepOk ==
    /\ InLoop
    /\ ~Explored(<<state_id, tactic>>, explored_edges)
    /\ explored_edges' = explored_edges \cup {<<state_id, tactic>>}
    /\ \E ans \in Answers :
         LET new_state == str(ans.id)
             new_depth == Len(sequence) + 1
             push == ~ChildDominated(Get(state_depth, new_state), new_depth)
         IN
         /\ Produce(ans)
         /\ Run(state_id, tactic, "ok", new_state, ans.goals)
         /\ state_goals' = (new_state :> ans.goals) @@ state_goals
         /\ trace' = IF tracing
                     THEN record_node(record_attempt(trace, state_id, tactic, TRUE, new_state),
                                      new_state, ans.goals, Len(sequence) + 1)
                     ELSE trace
         /\ state_depth' = IF push THEN (new_state :> new_depth) @@ state_depth
                           ELSE state_depth
         /\ children' = IF push
                        THEN Append(children,
                                    [state |-> new_state, path |-> Extend(sequence, tactic)])
                        ELSE children
         /\ Arrive(new_state, new_depth)
    /\ Advance
    /\ UNCHANGED <<pc, config, root_state, solutions, stack, state_id, sequence,
                   candidates, result, kills, expansions, pops>>

\* The children taken in the order they were appended.
Unreversed(s) == s

Reverse(s) == [i \in 1..Len(s) |-> s[Len(s) + 1 - i]]

\* for child in reversed(children): stack.append(child)
LoopEnd ==
    /\ pc = "expand"
    /\ idx > Len(candidates)
    /\ stack' = stack \o Reverse(children)
    /\ pc' = "loop"
    /\ UNCHANGED <<config, trace, root_state, state_goals, solutions, state_depth,
                   explored_edges, item, result, backend_goals, kills, requests, history>>

Next ==
    \/ ProbeRaise
    \/ ProbeFail
    \/ ProbeOk
    \/ LoopExit
    \/ PopDiscard
    \/ PopSolved
    \/ PopExpand
    \/ StepSkip
    \/ StepRaise
    \/ StepFail
    \/ StepOk
    \/ LoopEnd

Spec == Init /\ [][Next]_vars

\* The search under a scheduler that always takes the next step: the driver
\* is one synchronous thread and the backend answers every request.
FairSpec == Spec /\ WF_vars(Next)

\* ---------------------------------------------------------------------
\* Properties
\* ---------------------------------------------------------------------
Terminated == pc \in {"done", "raised"}
Last(s) == s[Len(s)]
\* The requests that apply a candidate (all but the probe).
Applications == {i \in 1..Len(requests) : requests[i].state # ProbeHandle}
\* A request is being made by this step.
Submitting == Len(requests') = Len(requests) + 1
ReExpanded(i, j) ==
    /\ i < j
    /\ expansions[i].state = expansions[j].state

\* C1: the backend never receives two requests with the same state and tactic.
C1_EdgeDedup ==
    \A i, j \in 1..Len(requests) :
        i # j => <<requests[i].state, requests[i].tactic>>
                 # <<requests[j].state, requests[j].tactic>>

\* A state has been expanded twice, tactics were applied to it, and its second
\* expansion is over.
C1_Witness ==
    \E i, j \in 1..Len(expansions) :
        /\ ReExpanded(i, j)
        /\ j < Len(expansions) \/ pc # "expand"
        /\ \E k \in Applications : requests[k].state = expansions[i].state

\* C2: while a state is being expanded, the path it is expanded from is no
\* longer than the shortest path by which the state has been reached so far.
C2_DepthDominance ==
    pc = "expand" => /\ state_id \in DOMAIN minArrival
                     /\ Len(sequence) <= minArrival[state_id]

\* A state being expanded that the backend has also produced on a longer path.
C2_Witness ==
    /\ pc = "expand"
    /\ \E k \in Applications :
         /\ requests[k].answer = "ok"
         /\ requests[k].new = state_id
         /\ requests[k].depth + 1 > Len(sequence)

\* C3 as claimed: every expansion of a state that submitted a candidate was
\* made at the least depth at which the state is reached in the whole run.
C3_MinimalOverRun ==
    \A i \in 1..Len(expansions) :
        (\E k \in Applications : /\ requests[k].state = expansions[i].state
                                 /\ requests[k].depth = expansions[i].depth)
        => expansions[i].depth <= minArrival[expansions[i].state]

\* C3 amended: every expansion is made at the least depth at which the state
\* had been reached when the expansion started.
C3_MinimalSoFar ==
    \A i \in 1..Len(expansions) : expansions[i].depth = expansions[i].min

\* A state expanded at one depth and expanded again at a smaller one.
C3_Witness ==
    \E i, j \in 1..Len(expansions) :
        /\ ReExpanded(i, j)
        /\ expansions[j].depth < expansions[i].depth

\* C4: every run of the search comes to an end.
C4_Termination == <>Terminated

\* A finished search whose backend graph has a cycle: a tactic led from a
\* state back to a state on the path to it.
C4_Witness ==
    /\ pc = "done"
    /\ \E k \in Applications :
         /\ requests[k].answer = "ok"
         /\ requests[k].new \in {requests[k].state, root_state}

\* The states a tactic sequence leads to from state s, along the applications
\* the backend accepted.
RECURSIVE Replay(_, _)
Replay(s, path) ==
    IF path = <<>> THEN {s}
    ELSE UNION {Replay(requests[k].new, Tail(path)) :
                    k \in {a \in Applications : /\ requests[a].state = s
                                                /\ requests[a].tactic = Head(path)
                                                /\ requests[a].answer = "ok"}}

ObservedSolved(s) ==
    \E k \in 1..Len(requests) : /\ requests[k].answer = "ok"
                                /\ requests[k].new = s
                                /\ requests[k].goals = <<>>

Replayable(path) == \E s \in Replay(root_state, path) : ObservedSolved(s)

\* C5: every reported solution replays from the root, through applications the
\* backend accepted, to a state that was observed without goals.
C5_SolutionsReplay ==
    /\ \A i \in 1..Len(solutions) : Replayable(solutions[i])
    /\ pc = "done" => result = solutions

\* A solution of two or more tactics has been returned.
C5_Witness ==
    /\ pc = "done"
    /\ \E i \in 1..Len(result) : Len(result[i]) >= 2

\* C6: popping an item whose path is longer than max_depth changes nothing but
\* the stack, and no reported solution is longer than max_depth.
C6_HardCutoff ==
    [][/\ (pc = "loop" /\ stack # <<>> /\ Len(stack[Len(stack)].path) > max_depth)
          => /\ pc' = "loop"
             /\ stack' = SubSeq(stack, 1, Len(stack) - 1)
             /\ UNCHANGED <<solutions, result, requests, expansions, trace,
                            state_depth, explored_edges>>
       /\ \A i \in 1..Len(solutions') : Len(solutions'[i]) <= max_depth]_vars

\* The search ended without a solution although a state without goals was
\* produced one step beyond the depth limit.
C6_Witness ==
    /\ pc = "done"
    /\ result = <<>>
    /\ \E k \in Applications : /\ requests[k].answer = "ok"
                               /\ requests[k].goals = <<>>
                               /\ requests[k].depth = max_depth

\* C7: with max_depth = 0 only the root is expanded and applied to, and the
\* result is the empty path alone if the root has no goals, else empty.
C7_DepthZero ==
    max_depth = 0 =>
        /\ \A i \in 1..Len(expansions) : expansions[i].state = root_state
        /\ \A k \in Applications : requests[k].state = root_state
        /\ pc = "done" =>
             result = IF requests[1].answer = "ok" /\ requests[1].goals = <<>>
                      THEN << <<>> >> ELSE <<>>

\* A finished search with max_depth = 0 in which a candidate was accepted and
\* led to a state without goals.
C7_Witness ==
    /\ max_depth = 0
    /\ pc = "done"
    /\ \E k \in Applications : requests[k].answer = "ok" /\ requests[k].goals = <<>>

\* C8: the search has ended exactly when the backend has been killed, it is
\* killed once, and the backend receives no request after the kill.
C8_ReleasedOnce ==
    /\ kills <= 1
    /\ Terminated <=> kills = 1
    /\ \A k \in 1..Len(requests) : ~requests[k].killed

\* The search was left by an exception of a backend call on a candidate.
C8_Witness ==
    /\ pc = "raised"
    /\ Len(requests) > 1
    /\ kills = 1

\* C9: once the probe has failed the search is over with an empty result, the
\* probe is the only request, and the trace is as the caller passed it.
C9_ProbeFailure ==
    (Len(requests) >= 1 /\ requests[1].answer = "error")
    => /\ pc = "done"
       /\ result = <<>>
       /\ Len(requests) = 1
       /\ trace = trace0

\* The probe failed in a search that was given a trace already written to.
C9_Witness ==
    /\ Len(requests) >= 1
    /\ requests[1].answer = "error"
    /\ tracing
    /\ trace0 # SearchGraph

\* C10: a step in which an application fails records the failure in the trace
\* node of the state, leaves the stack, the depth map, the goal cache and the
\* pending children alone, and moves to the next candidate of the same state.
C10_FailureAbsorbed ==
    [][(Submitting /\ Len(requests) >= 1 /\ Last(requests').answer = "error")
       => /\ pc' = "expand"
          /\ idx' = idx + 1
          /\ UNCHANGED <<stack, state_depth, state_goals, children, solutions,
                         state_id, sequence, candidates, kills, result>>
          /\ Last(requests').state = state_id
          /\ Last(requests').tactic = candidates[idx]
          /\ IF tracing
             THEN /\ DOMAIN trace'.nodes = DOMAIN trace.nodes
                  /\ state_id \in DOMAIN trace.nodes
                  /\ trace'.nodes[state_id] =
                       [trace.nodes[state_id] EXCEPT
                            !.tactics_tried = Append(@, candidates[idx]),
                            !.failures = Append(@, candidates[idx])]
                  /\ \A s \in DOMAIN trace.nodes \ {state_id} :
                         trace'.nodes[s] = trace.nodes[s]
                  /\ trace'.root = trace.root
                  /\ trace'.solutions = trace.solutions
             ELSE trace' = trace]_vars

\* A search that returned a solution after an application had failed.
C10_Witness ==
    /\ pc = "done"
    /\ Len(result) = 1
    /\ \E k \in Applications : requests[k].answer = "error"

\* ---------------------------------------------------------------------
\* SearchGraph under direct calls
\* ---------------------------------------------------------------------
\* The search stays unstarted while a graph is called directly.
DriverIdle ==
    /\ pc = "idle"
    /\ max_depth = 0
    /\ tracing = FALSE
    /\ twin = <<>>
    /\ trace0 = SearchGraph
    /\ trace = SearchGraph
    /\ root_state = None
    /\ state_goals = EmptyMap
    /\ solutions = <<>>
    /\ stack = <<>>
    /\ state_depth = EmptyMap
    /\ explored_edges = {}
    /\ state_id = None
    /\ sequence = <<>>
    /\ candidates = <<>>
    /\ idx = 1
    /\ children = <<>>
    /\ result = None
    /\ backend_goals = <<>>
    /\ kills = 0
    /\ requests = <<>>
    /\ minArrival = EmptyMap
    /\ expansions = <<>>
    /\ pops = <<>>

MaxCalls == 3

\* Arguments of the calls.
CallIds == {"1", "2"}
CallGoals == {<<GoalPlain>>, <<GoalTwice>>}
CallDepths == {0, 1, 2}
CallTactics == {Rfl, Induction(<<"n">>)}
CallNewStates == {None, "2"}

InitGraph ==
    /\ DriverIdle
    /\ graph = SearchGraph
    /\ calls = <<>>
    /\ gen_in = None
    /\ gen_out = <<>>
    /\ names_out = <<>>
    /\ parse_in = None
    /\ parse_out = <<>>

\* graph.record_node(state_id, goals, depth)
CallRecordNode ==
    /\ Len(calls) < MaxCalls
    /\ \E s \in CallIds, goals \in CallGoals, depth \in CallDepths :
         /\ graph' = record_node(graph, s, goals, depth)
         /\ calls' = Append(calls, [op |-> "record_node", state_id |-> s,
                                    goals |-> goals, depth |-> depth])
    /\ UNCHANGED <<driver, gen_in, gen_out, names_out, parse_in, parse_out>>

\* graph.record_attempt(state_id, tactic, success=..., new_state=...)
CallRecordAttempt ==
    /\ Len(calls) < MaxCalls
    /\ \E s \in CallIds, t \in CallTactics, success \in BOOLEAN,
          new_state \in CallNewStates :
         /\ graph' = record_attempt(graph, s, t, success, new_state)
         /\ calls' = Append(calls, [op |-> "record_attempt", state_id |-> s,
                                    tactic |-> t, success |-> success,
                                    new_state |-> new_state])
    /\ UNCHANGED <<driver, gen_in, gen_out, names_out, parse_in, parse_out>>

\* graph.solutions.append(sequence), as the search does on a solved state.
CallSolution ==
    /\ Len(calls) < MaxCalls
    /\ \E t \in CallTactics :
         /\ graph' = [graph EXCEPT !.solutions = Append(@, <<t>>)]
         /\ calls' = Append(calls, [op |-> "solution", sequence |-> <<t>>])
    /\ UNCHANGED <<driver, gen_in, gen_out, names_out, parse_in, parse_out>>

NextGraph ==
    \/ CallRecordNode
    \/ CallRecordAttempt
    \/ CallSolution

SpecGraph == InitGraph /\ [][NextGraph]_vars

\* The call made by the step, if the step is a call of the given operation.
Called(op) == calls' # calls /\ Last(calls').op = op

\* C11: record_node(state_id, goals, depth) is an upsert. An absent node is
\* created under its key with the given goals and depth and empty lists; a
\* node that exists gets the new goals and the smaller of its depth and the
\* new depth, and keeps its tactics_tried, successes and failures; every
\* other node is left as it was.
C11_Upsert ==
    [][Called("record_node") =>
        LET c == Last(calls')
            s == c.state_id
            old == graph.nodes[s]
            new == graph'.nodes[s]
        IN /\ DOMAIN graph'.nodes = DOMAIN graph.nodes \cup {s}
           /\ \A k \in DOMAIN graph.nodes \ {s} : graph'.nodes[k] = graph.nodes[k]
           /\ new.state_id = s
           /\ new.goals = c.goals
           /\ IF s \in DOMAIN graph.nodes
              THEN /\ new.depth = IF old.depth <= c.depth THEN old.depth ELSE c.depth
                   /\ new.tactics_tried = old.tactics_tried
                   /\ new.successes = old.successes
                   /\ new.failures = old.failures
              ELSE /\ new.depth = c.depth
                   /\ new.tactics_tried = <<>>
                   /\ new.successes = <<>>
                   /\ new.failures = <<>>]_vars

\* A node that holds an attempt was recorded again, with goals and at a
\* larger depth, next to a second node.
C11_Witness ==
    /\ Len(calls) = 3
    /\ calls[1].op = "record_attempt"
    /\ calls[2].op = "record_node" /\ calls[2].state_id # calls[1].state_id
    /\ calls[3].op = "record_node" /\ calls[3].state_id = calls[1].state_id
    /\ calls[3].depth = 1
    /\ graph.nodes[calls[1].state_id].depth = 0
    /\ graph.nodes[calls[1].state_id].goals = calls[3].goals
    /\ graph.nodes[calls[1].state_id].tactics_tried = <<calls[1].tactic>>
    /\ Cardinality(DOMAIN graph.nodes) = 2

\* The record_node calls made with depth 0, by position in the call sequence.
RootCalls == {i \in 1..Len(calls) : calls[i].op = "record_node" /\ calls[i].depth = 0}
\* The state of the first of them: no root is set before it.
FirstRootCall ==
    IF RootCalls = {} THEN None
    ELSE calls[CHOOSE i \in RootCalls : \A j \in RootCalls : i <= j].state_id

\* C12: after any sequence of record_node and record_attempt calls, root is
\* the state of the first record_node call made with depth 0 while no root was
\* set, also when a node of that state already existed, and it never changes
\* once set.
C12_RootIsFirstDepthZero == graph.root = FirstRootCall

\* C13: every record_attempt call appends the tactic to tactics_tried and one
\* entry to exactly one of successes and failures, so that after any call
\* sequence len(tactics_tried) = len(successes) + len(failures) on every node.
C13_AttemptsBalanced ==
    \A k \in DOMAIN graph.nodes :
        Len(graph.nodes[k].tactics_tried) =
            Len(graph.nodes[k].successes) + Len(graph.nodes[k].failures)

IsPrefix(a, b) == Len(a) <= Len(b) /\ SubSeq(b, 1, Len(a)) = a

\* C14: the graph is monotone under every operation. No node is removed,
\* every node is stored under its own state_id, the depth of a node never
\* increases, and tactics_tried, successes, failures and solutions only grow
\* at the end.
C14_Monotone ==
    [][/\ DOMAIN graph.nodes \subseteq DOMAIN graph'.nodes
       /\ \A k \in DOMAIN graph'.nodes :
            LET new == graph'.nodes[k] IN new.state_id = k
       /\ \A k \in DOMAIN graph.nodes :
            LET old == graph.nodes[k]
                new == graph'.nodes[k]
            IN /\ new.depth <= old.depth
               /\ IsPrefix(old.tactics_tried, new.tactics_tried)
               /\ IsPrefix(old.successes, new.successes)
               /\ IsPrefix(old.failures, new.failures)
       /\ IsPrefix(graph.solutions, graph'.solutions)]_vars

\* A node recorded at depth 1 took a failed attempt and was then recorded
\* again at depth 2.
C14_Witness ==
    /\ Len(calls) = 3
    /\ calls[1].op = "record_node" /\ calls[1].depth = 1
    /\ calls[2].op = "record_attempt" /\ calls[2].state_id = calls[1].state_id
    /\ ~calls[2].success
    /\ calls[3].op = "record_node" /\ calls[3].state_id = calls[1].state_id
    /\ calls[3].depth = 2
    /\ graph.nodes[calls[1].state_id].depth = 1
    /\ graph.nodes[calls[1].state_id].failures = <<calls[2].tactic>>

\* ---------------------------------------------------------------------
\* generate_tactic_candidates under direct calls
\* ---------------------------------------------------------------------
MaxLines == 2
MaxLemmas == 2

\* Lines of a goal text.
\* An equality hypothesis: h : a = b
LineEq == <<"h", " ", ":", " ", "a", " ", "=", " ", "b">>
\* A variable: n : N
LineVar == <<"n", " ", ":", " ", "N">>
\* Two equality hypotheses, one named as another line names its own: h, k : x = y
LineEqs == <<"h", ",", " ", "k", " ", ":", " ", "x", " ", "=", " ", "y">>
\* A hypothesis of a disallowed type: p : a -> b
LineArrow == <<"p", " ", ":", " ", "a", " ", RARROW, " ", "b">>
\* A case label: case h : a = b
LineCase == <<"c", "a", "s", "e", " ", "h", " ", ":", " ", "a", " ", "=", " ", "b">>
\* The goal line: |- m : N
LineGoal == <<TURNSTILE, " ", "m", " ", ":", " ", "N">>
\* Two variables: a b : N
LineVars == <<"a", " ", "b", " ", ":", " ", "N">>
\* A colon without a name:  : N
LineNameless == <<" ", ":", " ", "N">>
\* A definition, its type holding an equality sign inside a disallowed
\* token: d : N := 0
LineLet == <<"d", " ", ":", " ", "N", " ", ":", "=", " ", "0">>
\* A line without a colon: open
LineBare == <<"o", "p", "e", "n">>
GoalLines ==
    {LineEq, LineVar, LineEqs, LineArrow, LineCase, LineGoal, LineVars, LineNameless,
     LineLet, LineBare}

SeqsUpTo(S, n) == UNION {[1..k -> S] : k \in 0..n}

RECURSIVE JoinLines(_)
JoinLines(ls) ==
    IF ls = <<>> THEN <<>>
    ELSE IF Len(ls) = 1 THEN ls[1]
    ELSE ls[1] \o <<NL>> \o JoinLines(Tail(ls))

\* The arguments: goal texts, tactic names in scope, lemma names in scope.
GenGoals == {JoinLines(ls) : ls \in SeqsUpTo(GoalLines, MaxLines)}
GenTactics == {<<>>, <<"rfl">>, <<"rw">>, <<"nth_rewrite">>, <<"induction">>,
               <<"rw", "induction">>, <<"nth_rewrite", "rw">>,
               <<"induction", "nth_rewrite", "rw", "rfl">>}
LemmaNames == {<<"h">>, <<"c">>, <<>>}
GenLemmas == SeqsUpTo(LemmaNames, MaxLemmas)

InitGen ==
    /\ DriverIdle
    /\ graph = SearchGraph
    /\ calls = <<>>
    /\ gen_in \in [goal : GenGoals, available_tactics : GenTactics, lemmas : GenLemmas]
    /\ gen_out = <<>>
    /\ names_out = <<>>
    /\ parse_in = None
    /\ parse_out = <<>>

\* candidates = generate_tactic_candidates(goal, available_tactics, lemmas)
CallGenerate ==
    /\ gen_out = <<>>
    /\ gen_out' = <<generate_tactic_candidates(gen_in.goal, gen_in.available_tactics,
                                               gen_in.lemmas)>>
    /\ UNCHANGED <<driver, graph, calls, gen_in, names_out, parse_in, parse_out>>

\* eqs, induct = _parse_goal(goal)
CallParseGoal ==
    /\ names_out = <<>>
    /\ names_out' = <<_parse_goal(gen_in.goal)>>
    /\ UNCHANGED <<driver, graph, calls, gen_in, gen_out, parse_in, parse_out>>

NextGen == CallGenerate \/ CallParseGoal

SpecGen == InitGen /\ [][NextGen]_vars

\* The first occurrences of the names, in order.
RECURSIVE FirstOccurrences(_)
FirstOccurrences(names) ==
    IF names = <<>> THEN <<>>
    ELSE LET front == SubSeq(names, 1, Len(names) - 1)
             last == names[Len(names)]
         IN IF \E j \in 1..Len(front) : front[j] = last
            THEN FirstOccurrences(front)
            ELSE Append(FirstOccurrences(front), last)

\* The reference sequence for a rewrite pool, the induction names and the
\* tactics in scope, entry by entry.
Reference(pool, induct, scope) ==
    LET n == Len(pool)
        rw == [i \in 1..(2 * n) |->
                  IF i % 2 = 1 THEN RwFwd(pool[(i + 1) \div 2])
                  ELSE RwBwd(pool[i \div 2])]
        nth == [i \in 1..(6 * n) |->
                   LET position == ((i - 1) \div (2 * n)) + 1
                       r == (i - 1) % (2 * n)
                   IN IF r % 2 = 0 THEN NthFwd(position, pool[(r \div 2) + 1])
                      ELSE NthBwd(position, pool[(r \div 2) + 1])]
        ind == [i \in 1..Len(induct) |-> Induction(induct[i])]
    IN (IF "rfl" \in scope THEN <<Rfl>> ELSE <<>>)
       \o (IF "rw" \in scope THEN rw ELSE <<>>)
       \o (IF "nth_rewrite" \in scope THEN nth ELSE <<>>)
       \o (IF "induction" \in scope THEN ind ELSE <<>>)

Scope == {gen_in.available_tactics[i] : i \in 1..Len(gen_in.available_tactics)}
\* The keyword of a candidate: its text up to the first space.
Keyword(c) == IF find(c, " ") = 0 THEN c ELSE SubSeq(c, 1, find(c, " ") - 1)
KeywordOf ==
    [t \in {"rfl", "rw", "nth_rewrite", "induction"} |->
        IF t = "rfl" THEN Rfl
        ELSE IF t = "rw" THEN <<"r", "w">>
        ELSE IF t = "nth_rewrite" THEN SubSeq(NthPrefix(1), 1, 11)
        ELSE SubSeq(Induction(<<>>), 1, 9)]

\* C15 as stated: the generator returns the reference sequence whose rewrite
\* pool is the goal's equality names followed by the lemmas in given order,
\* first occurrences only: rfl, then the rw pairs, then the nth_rewrite pairs
\* for positions 1, 2, 3 with the position loop outermost, then the
\* inductions, each part only if its tactic is in scope.
C15_ReferenceAllLemmas ==
    gen_out # <<>> =>
        gen_out[1] = Reference(FirstOccurrences(_parse_goal(gen_in.goal).eqs \o gen_in.lemmas),
                               _parse_goal(gen_in.goal).induct, Scope)

\* C15: the generator returns the reference sequence whose rewrite pool is
\* the goal's equality names followed by the non-empty lemmas in given order,
\* first occurrences only; an empty lemma name gives no candidate. No
\* candidate of a tactic out of scope appears.
C15_ReferenceNamedLemmas ==
    gen_out # <<>> =>
        LET named == SelectSeq(gen_in.lemmas, LAMBDA l : Len(l) > 0)
        IN /\ gen_out[1] =
                Reference(FirstOccurrences(_parse_goal(gen_in.goal).eqs \o named),
                          _parse_goal(gen_in.goal).induct, Scope)
           /\ \A i \in 1..Len(gen_out[1]) :
                \E t \in Scope : Keyword(gen_out[1][i]) = KeywordOf[t]

\* All four tactics in scope, a goal with an equality hypothesis h and a
\* variable, and the lemmas "" and h: rfl, two rw, six nth_rewrite, one
\* induction.
C15_Witness ==
    /\ gen_out # <<>>
    /\ Scope = {"rfl", "rw", "nth_rewrite", "induction"}
    /\ gen_in.goal = LineEq \o <<NL>> \o LineVar
    /\ gen_in.lemmas = << <<>>, <<"h">> >>
    /\ Len(gen_out[1]) = 10
    /\ gen_out[1][4] = NthFwd(1, <<"h">>)
    /\ gen_out[1][10] = Induction(<<"n">>)

\* ---------------------------------------------------------------------
\* llean/tactic_models.py: parse_tactic and to_string
\* ---------------------------------------------------------------------
\* Index of the first occurrence of p in s (0 when absent).
findstr(s, p) ==
    LET at == {i \in 1..(Len(s) - Len(p) + 1) : SubSeq(s, i, i + Len(p) - 1) = p}
    IN IF at = {} THEN 0 ELSE CHOOSE i \in at : \A j \in at : i <= j

\* Number of whitespace characters s starts with.
RECURSIVE LeadingSpace(_)
LeadingSpace(s) ==
    IF s = <<>> \/ ~IsSpace(Head(s)) THEN 0 ELSE 1 + LeadingSpace(Tail(s))

From(s, i) == SubSeq(s, i, Len(s))

\* head, *_tail = command.split("--", 1); return head.strip()
_strip_inline_comment(command) ==
    LET k == findstr(command, <<"-", "-">>)
    IN strip(IF k = 0 THEN command ELSE SubSeq(command, 1, k - 1))

\* The loop of _split_arguments from character i on.
RECURSIVE SplitFrom(_, _, _, _, _)
SplitFrom(argument_block, i, entries, current, depth) ==
    IF i > Len(argument_block)
    THEN IF strip(current) # <<>> THEN Append(entries, strip(current)) ELSE entries
    ELSE LET char == argument_block[i] IN
         IF char = "," /\ depth = 0
         THEN SplitFrom(argument_block, i + 1,
                        IF strip(current) # <<>> THEN Append(entries, strip(current))
                        ELSE entries,
                        <<>>, 0)
         ELSE SplitFrom(argument_block, i + 1, entries, Append(current, char),
                        IF char \in {"(", "[", "{"} THEN depth + 1
                        ELSE IF char \in {")", "]", "}"}
                             THEN (IF depth - 1 > 0 THEN depth - 1 ELSE 0)
                        ELSE depth)

_split_arguments(argument_block) == SplitFrom(argument_block, 1, <<>>, <<>>, 0)

\* What a call gives: a model, or the exception it raises. A message is the
\* sequence of the parts of its format string, without its backquotes.
TacticParseError(message) == [type |-> "TacticParseError", message |-> message]
ValidationError == [type |-> "ValidationError"]
IsError(r) == r.type \in {"TacticParseError", "ValidationError"}

\* An optional string: no element for None, one element for a string.
NoLocation == <<>>
\* location.strip() if location else None
Target(location) ==
    IF location = NoLocation \/ location[1] = <<>> THEN NoLocation
    ELSE <<strip(location[1])>>

\* RewriteRule(expression=..., direction=...) with its field validator.
RewriteRule(expression, direction) ==
    IF strip(expression) = <<>> THEN ValidationError
    ELSE [type |-> "RewriteRule", expression |-> strip(expression),
          direction |-> direction]

RewriteRule_from_string(token) ==
    LET trimmed == strip(token) IN
    IF startswith(trimmed, <<LARROW>>)
    THEN RewriteRule(lstrip(Tail(trimmed)), "backward")
    ELSE RewriteRule(trimmed, "forward")

RewriteRule_to_string(rule) ==
    (IF rule.direction = "backward" THEN <<LARROW, " ">> ELSE <<>>) \o rule.expression

\* The tail of the three patterns, (?:\s+at\s+(?P<location>.+))?$, on the
\* rest of the text: whether it matches, and the location group.
AtTail(rest) ==
    LET w == LeadingSpace(rest)
        after == From(rest, w + 3)
        v == LeadingSpace(after)
    IN IF rest = <<>> THEN [matches |-> TRUE, location |-> NoLocation]
       ELSE IF w >= 1 /\ startswith(From(rest, w + 1), <<"a", "t">>) /\ v >= 1
               /\ Len(after) > v
            THEN [matches |-> TRUE, location |-> <<From(after, v + 1)>>]
       ELSE IF w >= 1 /\ startswith(From(rest, w + 1), <<"a", "t">>) /\ v >= 2
               /\ Len(after) = v
            THEN [matches |-> TRUE, location |-> <<From(after, v)>>]
       ELSE [matches |-> FALSE, location |-> NoLocation]

\* \[(?P<body>.+)] followed by the tail, on text that starts at the bracket:
\* the body is greedy, so the last closing bracket that lets the tail match.
Bracketed(s) ==
    LET ends == {j \in 3..Len(s) : s[j] = "]" /\ AtTail(From(s, j + 1)).matches}
        j == CHOOSE j \in ends : \A k \in ends : k <= j
    IN IF s = <<>> \/ s[1] # "[" \/ ends = {}
       THEN [matches |-> FALSE, body |-> <<>>, location |-> NoLocation]
       ELSE [matches |-> TRUE, body |-> SubSeq(s, 2, j - 1),
             location |-> AtTail(From(s, j + 1)).location]

KwRw == <<"r", "w">>
KwApply == <<"a", "p", "p", "l", "y">>
KwNthRewrite == <<"n", "t", "h", "_", "r", "e", "w", "r", "i", "t", "e">>

\* RewriteTactic.from_string
RewriteTactic_from_string(command) ==
    LET cleaned == _strip_inline_comment(command)
        w == LeadingSpace(From(cleaned, Len(KwRw) + 1))
        match == Bracketed(From(cleaned, Len(KwRw) + w + 1))
        tokens == _split_arguments(strip(match.body))
        rules == [i \in 1..Len(tokens) |-> RewriteRule_from_string(tokens[i])]
    IN IF ~(startswith(cleaned, KwRw) /\ w >= 1 /\ match.matches)
       THEN TacticParseError(<<"Unable to parse rewrite command: '", command, "'">>)
       ELSE IF tokens = <<>>
       THEN TacticParseError(<<"rw requires at least one rewrite rule">>)
       ELSE IF \E i \in 1..Len(rules) : IsError(rules[i]) THEN ValidationError
       ELSE [type |-> "RewriteTactic", rules |-> rules, location |-> Target(match.location)]

RewriteTactic_to_string(self) ==
    LET RECURSIVE join(_)
        join(rs) == IF Len(rs) = 1 THEN RewriteRule_to_string(rs[1])
                    ELSE RewriteRule_to_string(rs[1]) \o <<",", " ">> \o join(Tail(rs))
    IN KwRw \o <<" ", "[">> \o join(self.rules) \o <<"]">>
       \o (IF self.location # NoLocation
           THEN <<" ", "a", "t", " ">> \o self.location[1] ELSE <<>>)

\* ApplyTactic.from_string; the expr group is lazy, so the shortest
\* expression that lets the tail match.
ApplyTactic_from_string(command) ==
    LET cleaned == _strip_inline_comment(command)
        w == LeadingSpace(From(cleaned, Len(KwApply) + 1))
        rest == From(cleaned, Len(KwApply) + w + 1)
        ends == {k \in 1..Len(rest) : AtTail(From(rest, k + 1)).matches}
        k == CHOOSE k \in ends : \A j \in ends : k <= j
    IN IF ~(startswith(cleaned, KwApply) /\ w >= 1 /\ (rest # <<>> \/ w >= 2))
       THEN TacticParseError(<<"Unable to parse apply command: '", command, "'">>)
       ELSE IF rest = <<>> \/ strip(SubSeq(rest, 1, k)) = <<>> THEN ValidationError
       ELSE [type |-> "ApplyTactic", expression |-> strip(SubSeq(rest, 1, k)),
             location |-> Target(AtTail(From(rest, k + 1)).location)]

ApplyTactic_to_string(self) ==
    KwApply \o <<" ">> \o self.expression
    \o (IF self.location # NoLocation
        THEN <<" ", "a", "t", " ">> \o self.location[1] ELSE <<>>)

Digits == <<"0", "1", "2", "3", "4", "5", "6", "7", "8", "9">>
IsDigit(c) == \E d \in 1..Len(Digits) : Digits[d] = c
RECURSIVE LeadingDigits(_)
LeadingDigits(s) ==
    IF s = <<>> \/ ~IsDigit(Head(s)) THEN 0 ELSE 1 + LeadingDigits(Tail(s))
\* int(text) for a text of decimal digits
RECURSIVE int(_)
int(ds) ==
    IF ds = <<>> THEN 0
    ELSE 10 * int(SubSeq(ds, 1, Len(ds) - 1))
         + (CHOOSE d \in 1..Len(Digits) : Digits[d] = ds[Len(ds)]) - 1
\* f"{index}" for a non-negative int
RECURSIVE format(_)
format(n) ==
    IF n < 10 THEN <<Digits[n + 1]>> ELSE Append(format(n \div 10), Digits[(n % 10) + 1])

\* NthRewriteTactic.from_string
NthRewriteTactic_from_string(command) ==
    LET cleaned == _strip_inline_comment(command)
        w == LeadingSpace(From(cleaned, Len(KwNthRewrite) + 1))
        number == From(cleaned, Len(KwNthRewrite) + w + 1)
        d == LeadingDigits(number)
        v == LeadingSpace(From(number, d + 1))
        match == Bracketed(From(number, d + v + 1))
        tokens == _split_arguments(strip(match.body))
        rule == RewriteRule_from_string(tokens[1])
    IN IF ~(startswith(cleaned, KwNthRewrite) /\ w >= 1 /\ d >= 1 /\ v >= 1
            /\ match.matches)
       THEN TacticParseError(<<"Unable to parse nth_rewrite command: '", command, "'">>)
       ELSE IF Len(tokens) # 1
       THEN TacticParseError(<<"nth_rewrite currently supports exactly one rewrite rule">>)
       ELSE IF IsError(rule) THEN ValidationError
       ELSE [type |-> "NthRewriteTactic", rule |-> rule,
             index |-> int(SubSeq(number, 1, d)), location |-> Target(match.location)]

NthRewriteTactic_to_string(self) ==
    KwNthRewrite \o <<" ">> \o format(self.index) \o <<" ", "[">>
    \o RewriteRule_to_string(self.rule) \o <<"]">>
    \o (IF self.location # NoLocation
        THEN <<" ", "a", "t", " ">> \o self.location[1] ELSE <<>>)

\* TACTIC_REGISTRY: keyword to model class
TACTIC_REGISTRY ==
    [keyword \in {KwRw, KwApply, KwNthRewrite} |->
        IF keyword = KwRw THEN "RewriteTactic"
        ELSE IF keyword = KwApply THEN "ApplyTactic"
        ELSE "NthRewriteTactic"]

\* factory.from_string(stripped)
Factory_from_string(factory, command) ==
    IF factory = "RewriteTactic" THEN RewriteTactic_from_string(command)
    ELSE IF factory = "ApplyTactic" THEN ApplyTactic_from_string(command)
    ELSE NthRewriteTactic_from_string(command)

\* from_string that lets the validation of a model class reject the keyword.
TacticModel_from_string_late(command) ==
    LET stripped == _strip_inline_comment(command)
        keyword == split(stripped)[1]
    IN IF stripped = <<>> THEN TacticParseError(<<"Empty tactic command">>)
       ELSE IF keyword \notin DOMAIN TACTIC_REGISTRY THEN ValidationError
       ELSE Factory_from_string(TACTIC_REGISTRY[keyword], stripped)

\* TacticModel.from_string
TacticModel_from_string(command) ==
    LET stripped == _strip_inline_comment(command)
        keyword == split(stripped)[1]
    IN IF stripped = <<>> THEN TacticParseError(<<"Empty tactic command">>)
       ELSE IF keyword \notin DOMAIN TACTIC_REGISTRY
       THEN TacticParseError(<<"Unsupported tactic keyword: '", keyword, "'">>)
       ELSE Factory_from_string(TACTIC_REGISTRY[keyword], stripped)

parse_tactic(command) == TacticModel_from_string(command)

\* model.to_string()
to_string(self) ==
    IF self.type = "RewriteTactic" THEN RewriteTactic_to_string(self)
    ELSE IF self.type = "ApplyTactic" THEN ApplyTactic_to_string(self)
    ELSE NthRewriteTactic_to_string(self)

\* ---------------------------------------------------------------------
\* parse_tactic under direct calls
\* ---------------------------------------------------------------------
\* The canonical texts, each with the class of its kind.
CanonicalTexts ==
    {\* rw [h]
     [text |-> <<"r", "w", " ", "[", "h", "]">>,
      type |-> "RewriteTactic"],
     \* rw [h] at h
     [text |-> <<"r", "w", " ", "[", "h", "]", " ", "a", "t", " ", "h">>,
      type |-> "RewriteTactic"],
     \* rw [<- h]
     [text |-> <<"r", "w", " ", "[", LARROW, " ", "h", "]">>,
      type |-> "RewriteTactic"],
     \* rw [<- h] at h
     [text |-> <<"r", "w", " ", "[", LARROW, " ", "h", "]", " ", "a", "t", " ", "h">>,
      type |-> "RewriteTactic"],
     \* rw [h, k]
     [text |-> <<"r", "w", " ", "[", "h", ",", " ", "k", "]">>,
      type |-> "RewriteTactic"],
     \* rw [h, k] at h
     [text |-> <<"r", "w", " ", "[", "h", ",", " ", "k", "]", " ", "a", "t", " ", "h">>,
      type |-> "RewriteTactic"],
     \* rw [<- h, k]
     [text |-> <<"r", "w", " ", "[", LARROW, " ", "h", ",", " ", "k", "]">>,
      type |-> "RewriteTactic"],
     \* rw [<- h, k] at h
     [text |-> <<"r", "w", " ", "[", LARROW, " ", "h", ",", " ", "k", "]", " ", "a", "t", " ", "h">>,
      type |-> "RewriteTactic"],
     \* rw [h, <- k]
     [text |-> <<"r", "w", " ", "[", "h", ",", " ", LARROW, " ", "k", "]">>,
      type |-> "RewriteTactic"],
     \* rw [h, <- k] at h
     [text |-> <<"r", "w", " ", "[", "h", ",", " ", LARROW, " ", "k", "]", " ", "a", "t", " ", "h">>,
      type |-> "RewriteTactic"],
     \* rw [f (a, b)]
     [text |-> <<"r", "w", " ", "[", "f", " ", "(", "a", ",", " ", "b", ")", "]">>,
      type |-> "RewriteTactic"],
     \* rw [f (a, b)] at h
     [text |-> <<"r", "w", " ", "[", "f", " ", "(", "a", ",", " ", "b", ")", "]", " ", "a", "t", " ", "h">>,
      type |-> "RewriteTactic"],
     \* apply f
     [text |-> <<"a", "p", "p", "l", "y", " ", "f">>,
      type |-> "ApplyTactic"],
     \* apply f at h
     [text |-> <<"a", "p", "p", "l", "y", " ", "f", " ", "a", "t", " ", "h">>,
      type |-> "ApplyTactic"],
     \* apply f at h at k
     [text |-> <<"a", "p", "p", "l", "y", " ", "f", " ", "a", "t", " ", "h", " ", "a", "t", " ", "k">>,
      type |-> "ApplyTactic"],
     \* apply f x
     [text |-> <<"a", "p", "p", "l", "y", " ", "f", " ", "x">>,
      type |-> "ApplyTactic"],
     \* apply f x at h
     [text |-> <<"a", "p", "p", "l", "y", " ", "f", " ", "x", " ", "a", "t", " ", "h">>,
      type |-> "ApplyTactic"],
     \* apply f x at h at k
     [text |-> <<"a", "p", "p", "l", "y", " ", "f", " ", "x", " ", "a", "t", " ", "h", " ", "a", "t", " ", "k">>,
      type |-> "ApplyTactic"],
     \* nth_rewrite 1 [h]
     [text |-> <<"n", "t", "h", "_", "r", "e", "w", "r", "i", "t", "e", " ", "1", " ", "[", "h", "]">>,
      type |-> "NthRewriteTactic"],
     \* nth_rewrite 1 [h] at h
     [text |-> <<"n", "t", "h", "_", "r", "e", "w", "r", "i", "t", "e", " ", "1", " ", "[", "h", "]", " ", "a", "t", " ", "h">>,
      type |-> "NthRewriteTactic"],
     \* nth_rewrite 1 [<- h]
     [text |-> <<"n", "t", "h", "_", "r", "e", "w", "r", "i", "t", "e", " ", "1", " ", "[", LARROW, " ", "h", "]">>,
      type |-> "NthRewriteTactic"],
     \* nth_rewrite 1 [<- h] at h
     [text |-> <<"n", "t", "h", "_", "r", "e", "w", "r", "i", "t", "e", " ", "1", " ", "[", LARROW, " ", "h", "]", " ", "a", "t", " ", "h">>,
      type |-> "NthRewriteTactic"],
     \* nth_rewrite 2 [h]
     [text |-> <<"n", "t", "h", "_", "r", "e", "w", "r", "i", "t", "e", " ", "2", " ", "[", "h", "]">>,
      type |-> "NthRewriteTactic"],
     \* nth_rewrite 2 [h] at h
     [text |-> <<"n", "t", "h", "_", "r", "e", "w", "r", "i", "t", "e", " ", "2", " ", "[", "h", "]", " ", "a", "t", " ", "h">>,
      type |-> "NthRewriteTactic"],
     \* nth_rewrite 2 [<- h]
     [text |-> <<"n", "t", "h", "_", "r", "e", "w", "r", "i", "t", "e", " ", "2", " ", "[", LARROW, " ", "h", "]">>,
      type |-> "NthRewriteTactic"],
     \* nth_rewrite 2 [<- h] at h
     [text |-> <<"n", "t", "h", "_", "r", "e", "w", "r", "i", "t", "e", " ", "2", " ", "[", LARROW, " ", "h", "]", " ", "a", "t", " ", "h">>,
      type |-> "NthRewriteTactic"],
     \* nth_rewrite 10 [h]
     [text |-> <<"n", "t", "h", "_", "r", "e", "w", "r", "i", "t", "e", " ", "1", "0", " ", "[", "h", "]">>,
      type |-> "NthRewriteTactic"],
     \* nth_rewrite 10 [h] at h
     [text |-> <<"n", "t", "h", "_", "r", "e", "w", "r", "i", "t", "e", " ", "1", "0", " ", "[", "h", "]", " ", "a", "t", " ", "h">>,
      type |-> "NthRewriteTactic"],
     \* nth_rewrite 10 [<- h]
     [text |-> <<"n", "t", "h", "_", "r", "e", "w", "r", "i", "t", "e", " ", "1", "0", " ", "[", LARROW, " ", "h", "]">>,
      type |-> "NthRewriteTactic"],
     \* nth_rewrite 10 [<- h] at h
     [text |-> <<"n", "t", "h", "_", "r", "e", "w", "r", "i", "t", "e", " ", "1", "0", " ", "[", LARROW, " ", "h", "]", " ", "a", "t", " ", "h">>,
      type |-> "NthRewriteTactic"],
     \* rw [two_eq_succ_one]
     [text |-> <<"r", "w", " ", "[", "t", "w", "o", "_", "e", "q", "_", "s", "u", "c", "c", "_", "o", "n", "e", "]">>,
      type |-> "RewriteTactic"],
     \* rw [<- add_assoc, add_comm] at h
     [text |-> <<"r", "w", " ", "[", LARROW, " ", "a", "d", "d", "_", "a", "s", "s", "o", "c", ",", " ", "a", "d", "d", "_", "c", "o", "m", "m", "]", " ", "a", "t", " ", "h">>,
      type |-> "RewriteTactic"],
     \* apply mul_left_ne_zero at h
     [text |-> <<"a", "p", "p", "l", "y", " ", "m", "u", "l", "_", "l", "e", "f", "t", "_", "n", "e", "_", "z", "e", "r", "o", " ", "a", "t", " ", "h">>,
      type |-> "ApplyTactic"],
     \* nth_rewrite 2 [two_eq_succ_one]
     [text |-> <<"n", "t", "h", "_", "r", "e", "w", "r", "i", "t", "e", " ", "2", " ", "[", "t", "w", "o", "_", "e", "q", "_", "s", "u", "c", "c", "_", "o", "n", "e", "]">>,
      type |-> "NthRewriteTactic"],
     \* nth_rewrite 2 [<- zero_add y] at h
     [text |-> <<"n", "t", "h", "_", "r", "e", "w", "r", "i", "t", "e", " ", "2", " ", "[", LARROW, " ", "z", "e", "r", "o", "_", "a", "d", "d", " ", "y", "]", " ", "a", "t", " ", "h">>,
      type |-> "NthRewriteTactic"],
     \* rfl
     [text |-> <<"r", "f", "l">>,
      type |-> "RflTactic"]}

\* Other texts: empty, comment only, unknown keyword, malformed, not canonical.
OtherTexts ==
    {\* ""
     <<>>,
     \* "  "
     <<" ", " ">>,
     \* "-- c"
     <<"-", "-", " ", "c">>,
     \* "foo bar"
     <<"f", "o", "o", " ", "b", "a", "r">>,
     \* "simp"
     <<"s", "i", "m", "p">>,
     \* "exact h"
     <<"e", "x", "a", "c", "t", " ", "h">>,
     \* "rwx [h]"
     <<"r", "w", "x", " ", "[", "h", "]">>,
     \* "rw[h]"
     <<"r", "w", "[", "h", "]">>,
     \* "rfl -- done"
     <<"r", "f", "l", " ", "-", "-", " ", "d", "o", "n", "e">>,
     \* "rw"
     <<"r", "w">>,
     \* "rw []"
     <<"r", "w", " ", "[", "]">>,
     \* "rw [ ]"
     <<"r", "w", " ", "[", " ", "]">>,
     \* "rw [<-]"
     <<"r", "w", " ", "[", LARROW, "]">>,
     \* "rw [h, <- ]"
     <<"r", "w", " ", "[", "h", ",", " ", LARROW, " ", "]">>,
     \* "apply"
     <<"a", "p", "p", "l", "y">>,
     \* "apply -- f"
     <<"a", "p", "p", "l", "y", " ", "-", "-", " ", "f">>,
     \* "nth_rewrite 2 [h, k]"
     <<"n", "t", "h", "_", "r", "e", "w", "r", "i", "t", "e", " ", "2", " ", "[", "h", ",", " ", "k", "]">>,
     \* "nth_rewrite x [h]"
     <<"n", "t", "h", "_", "r", "e", "w", "r", "i", "t", "e", " ", "x", " ", "[", "h", "]">>,
     \* "nth_rewrite [h]"
     <<"n", "t", "h", "_", "r", "e", "w", "r", "i", "t", "e", " ", "[", "h", "]">>,
     \* "nth_rewrite 02 [h]"
     <<"n", "t", "h", "_", "r", "e", "w", "r", "i", "t", "e", " ", "0", "2", " ", "[", "h", "]">>,
     \* "rw [h] -- c"
     <<"r", "w", " ", "[", "h", "]", " ", "-", "-", " ", "c">>,
     \* "  rw  [ h ,k ]  at  h "
     <<" ", " ", "r", "w", " ", " ", "[", " ", "h", " ", ",", "k", " ", "]", " ", " ", "a", "t", " ", " ", "h", " ">>,
     \* "rw [h]]"
     <<"r", "w", " ", "[", "h", "]", "]">>,
     \* "rw [h] at"
     <<"r", "w", " ", "[", "h", "]", " ", "a", "t">>,
     \* "rw [h] k"
     <<"r", "w", " ", "[", "h", "]", " ", "k">>,
     \* "apply  f  at  h"
     <<"a", "p", "p", "l", "y", " ", " ", "f", " ", " ", "a", "t", " ", " ", "h">>,
     \* "rw\n[h]"
     <<"r", "w", NL, "[", "h", "]">>,
     \* "induction n"
     <<"i", "n", "d", "u", "c", "t", "i", "o", "n", " ", "n">>,
     \* "Rw [h]"
     <<"R", "w", " ", "[", "h", "]">>,
     \* "apply f at -- h"
     <<"a", "p", "p", "l", "y", " ", "f", " ", "a", "t", " ", "-", "-", " ", "h">>}

Commands == {c.text : c \in CanonicalTexts} \cup OtherTexts

InitTactic ==
    /\ DriverIdle
    /\ graph = SearchGraph
    /\ calls = <<>>
    /\ gen_in = None
    /\ gen_out = <<>>
    /\ names_out = <<>>
    /\ parse_in \in Commands
    /\ parse_out = <<>>

\* model = parse_tactic(text)
CallParse ==
    /\ parse_out = <<>>
    /\ parse_out' = <<parse_tactic(parse_in)>>
    /\ UNCHANGED <<driver, graph, calls, gen_in, gen_out, names_out, parse_in>>

\* model.to_string()
CallToString ==
    /\ Len(parse_out) = 1
    /\ ~IsError(parse_out[1])
    /\ parse_out' = Append(parse_out, to_string(parse_out[1]))
    /\ UNCHANGED <<driver, graph, calls, gen_in, gen_out, names_out, parse_in>>

NextTactic ==
    \/ CallParse
    \/ CallToString

SpecTactic == InitTactic /\ [][NextTactic]_vars

\* C16: for every canonical text of the recognized kinds (rw, apply,
\* nth_rewrite and the closer rfl), parse_tactic returns a model of the kind's
\* class and to_string of that model returns the identical text.
C16_RoundTrip ==
    \A c \in CanonicalTexts :
        parse_in = c.text =>
            /\ Len(parse_out) >= 1 => parse_out[1].type = c.type
            /\ Len(parse_out) = 2 => parse_out[2] = c.text

\* The text of the call once its inline comment is stripped, and its keyword.
Stripped == _strip_inline_comment(parse_in)
LeadingKeyword == split(Stripped)[1]

\* C17: on a text that is empty once the inline comment is stripped, or whose
\* leading keyword is not a registered kind, parse_tactic fails with
\* TacticParseError, for an unknown keyword with a message that names the
\* keyword; no other error is raised and no model is returned.
C17_UnknownKeyword ==
    (Len(parse_out) >= 1
     /\ (Stripped = <<>> \/ LeadingKeyword \notin {KwRw, KwApply, KwNthRewrite})) =>
        /\ Len(parse_out) = 1
        /\ parse_out[1].type = "TacticParseError"
        /\ Stripped # <<>> =>
             parse_out[1].message = <<"Unsupported tactic keyword: '", LeadingKeyword, "'">>

\* parse_tactic("foo bar") has failed, naming foo.
C17_Witness ==
    /\ parse_in = <<"f", "o", "o", " ", "b", "a", "r">>
    /\ Len(parse_out) = 1
    /\ parse_out[1].type = "TacticParseError"
    /\ parse_out[1].message[2] = <<"f", "o", "o">>

\* ---------------------------------------------------------------------
\* Properties of the pop test, the push test and the pop order
\* ---------------------------------------------------------------------
\* An item is popped by this step.
Popping == Len(pops') = Len(pops) + 1
\* The item popped by this step has a state with open goals.
PoppingOpen ==
    /\ Popping
    /\ Last(pops').state \in DOMAIN state_goals
    /\ state_goals[Last(pops').state] # <<>>

\* C18 as stated: a popped item whose state has open goals and for whose state
\* the best-depth map holds a depth less than or equal to len(path) is
\* discarded, no candidate generated or submitted; any other such item within
\* the depth limit sets the map entry to len(path) and is expanded.
C18_DiscardAtEqual ==
    [][PoppingOpen =>
        LET it == Last(pops')
            recorded_depth == Get(state_depth, it.state)
        IN IF recorded_depth # NoDepth /\ recorded_depth <= Len(it.path)
           THEN pc' = "loop" /\ UNCHANGED <<candidates, requests, state_depth>>
           ELSE Len(it.path) <= max_depth =>
                    /\ pc' = "expand"
                    /\ Get(state_depth', it.state) = Len(it.path)]_vars

\* C18: a popped item within the depth limit whose state has open goals is
\* discarded only if the best-depth map holds a depth strictly less than
\* len(path). The map holds exactly len(path) at every such pop, the entry
\* written when the item was pushed, so the item is expanded: the candidates
\* of the first goal are generated and the map keeps len(path).
C18_ExpandAtEqual ==
    [][(PoppingOpen /\ Len(Last(pops').path) <= max_depth) =>
        LET it == Last(pops')
            recorded_depth == Get(state_depth, it.state)
        IN /\ recorded_depth = Len(it.path)
           /\ IF recorded_depth < Len(it.path)
              THEN pc' = "loop" /\ UNCHANGED <<candidates, requests, state_depth>>
              ELSE /\ pc' = "expand"
                   /\ Get(state_depth', it.state) = Len(it.path)
                   /\ candidates' = Candidates[state_goals[it.state][1]]
                   /\ idx' = 1]_vars

\* A state popped a second time, from a shorter path than the first time, with
\* the map holding the shorter length: it is being expanded again.
C18_Witness ==
    /\ pc = "expand"
    /\ Len(pops) >= 2
    /\ Last(pops).state = state_id
    /\ state_depth[state_id] = Len(Last(pops).path)
    /\ \E i \in 1..(Len(pops) - 1) :
         /\ pops[i].state = state_id
         /\ Len(pops[i].path) > Len(Last(pops).path)

\* A candidate is submitted by this step and the backend answers with a state.
Succeeding ==
    /\ Submitting
    /\ Last(requests').state # ProbeHandle
    /\ Last(requests').answer = "ok"

\* The step hands the pending children to the stack.
Pushing == pc = "expand" /\ pc' = "loop"

Count(seq, x) == Cardinality({j \in 1..Len(seq) : seq[j] = x})

\* C19: after a successful application from (state, path) that yields
\* newState, nothing is enqueued and the best-depth map is unchanged if the map
\* holds a depth of at most len(path) + 1 for newState; otherwise the entry of
\* newState becomes len(path) + 1 and the one item (newState, path +
\* [candidate]) is enqueued, and reaches the stack once when the candidates of
\* the state are through. No entry of the map ever increases.
C19_ChildPush ==
    [][/\ Succeeding =>
            LET new_state == Last(requests').new
                recorded_child == Get(state_depth, new_state)
                new_depth == Len(sequence) + 1
            IN /\ stack' = stack
               /\ IF recorded_child # NoDepth /\ recorded_child <= new_depth
                  THEN UNCHANGED <<children, state_depth>>
                  ELSE /\ state_depth' = (new_state :> new_depth) @@ state_depth
                       /\ children' =
                            Append(children,
                                   [state |-> new_state,
                                    path |-> Append(sequence, candidates[idx])])
       /\ (Submitting /\ Last(requests').state # ProbeHandle /\ ~Succeeding) =>
            UNCHANGED <<children, state_depth, stack>>
       /\ Pushing =>
            /\ Len(stack') = Len(stack) + Len(children)
            /\ SubSeq(stack', 1, Len(stack)) = stack
            /\ \A i \in 1..Len(children) :
                 Count(SubSeq(stack', Len(stack) + 1, Len(stack')), children[i])
                     = Count(children, children[i])
       /\ \A s \in DOMAIN state_depth :
            s \in DOMAIN state_depth' /\ state_depth'[s] <= state_depth[s]]_vars

\* Two candidates of one state led to the same new state: the first was
\* enqueued, the second found the map holding its own depth and was not.
C19_Witness ==
    /\ pc = "expand"
    /\ idx = 3
    /\ Len(children) = 1
    /\ Len(requests) >= 3
    /\ Last(requests).answer = "ok"
    /\ Last(requests).state = state_id
    /\ Last(requests).new = children[1].state
    /\ requests[Len(requests) - 1].answer = "ok"
    /\ requests[Len(requests) - 1].new = children[1].state
    /\ state_depth[children[1].state] = Len(sequence) + 1

\* Path q goes through path p.
Through(p, q) == Len(p) <= Len(q) /\ SubSeq(q, 1, Len(p)) = p
Front(p) == SubSeq(p, 1, Len(p) - 1)
\* Pops i and j took children of one expansion.
Siblings(i, j) ==
    /\ pops[i].path # <<>>
    /\ Len(pops[i].path) = Len(pops[j].path)
    /\ Front(pops[i].path) = Front(pops[j].path)
\* The position at which the generator emits tactic t for the state that was
\* popped with path p.
Emitted(p, t) ==
    LET parent == CHOOSE k \in 1..Len(pops) : pops[k].path = p
        emitted == Candidates[state_goals[pops[parent].state][1]]
    IN CHOOSE n \in 1..Len(emitted) :
         emitted[n] = t /\ \A l \in 1..(n - 1) : emitted[l] # t

\* Siblings are popped in the emission order of their candidates, the pops
\* between two siblings are below the parent, and nothing below a sibling is
\* popped once a later sibling has been popped.
PopOrder ==
    \A i, j \in 1..Len(pops) :
        (i < j /\ Siblings(i, j)) =>
            /\ Emitted(Front(pops[i].path), Last(pops[i].path))
                   < Emitted(Front(pops[j].path), Last(pops[j].path))
            /\ \A k \in (i + 1)..(j - 1) :
                   /\ Through(Front(pops[i].path), pops[k].path)
                   /\ Len(pops[k].path) >= Len(pops[i].path)
            /\ \A k \in (j + 1)..Len(pops) : ~Through(pops[i].path, pops[k].path)

\* C20: the children enqueued by one expansion are popped in the emission
\* order of their candidates. When the candidates of a state are through, the
\* first child enqueued is on top of the stack, the others under it in order,
\* and a pop takes the top; each child's subtree is popped before the next
\* sibling is.
C20_EmissionOrder ==
    /\ [][/\ Pushing =>
               /\ Len(stack') = Len(stack) + Len(children)
               /\ \A i \in 1..Len(children) : stack'[Len(stack') + 1 - i] = children[i]
          /\ Popping =>
               /\ Last(pops') = stack[Len(stack)]
               /\ stack' = SubSeq(stack, 1, Len(stack) - 1)]_vars
    /\ []PopOrder

\* Two children of one expansion have been popped, and between them an item
\* below the first.
C20_Witness ==
    \E i, j \in 1..Len(pops) :
        /\ i + 1 < j
        /\ Siblings(i, j)
        /\ Through(pops[i].path, pops[i + 1].path)

\* ---------------------------------------------------------------------
\* Properties of the exit on a solution
\* ---------------------------------------------------------------------
\* The item popped by this step is within the depth limit and its state has
\* an empty goal list.
PoppingSolved ==
    /\ Popping
    /\ Len(Last(pops').path) <= max_depth
    /\ \/ Last(pops').state \notin DOMAIN state_goals
       \/ state_goals[Last(pops').state] = <<>>

NoRepeat(s) == \A i, j \in 1..Len(s) : s[i] = s[j] => i = j

\* C22: for every goal, available-tactic set and lemma list, the candidate
\* sequence returned by generate_tactic_candidates contains no candidate
\* twice, also when a hypothesis name is declared on several lines of the
\* goal, for equality names and induction names alike.
C22_NoRepeatedCandidate ==
    gen_out # <<>> => NoRepeat(gen_out[1])

\* The lines of the goal handed to the parser, each stripped.
GoalText ==
    LET lines == splitlines(gen_in.goal)
    IN [i \in 1..Len(lines) |-> strip(lines[i])]

\* The place of the first colon of a line (0 when it has none).
Colon(line) == find(line, ":")

\* Line i of the text lies before the first turnstile line.
BeforeTurnstile(text, i) == \A j \in 1..i : ~startswith(text[j], <<TURNSTILE>>)

\* Line i is a hypothesis line: read, not blank, not a case marker, with a colon.
HypothesisLine(text, i) ==
    /\ BeforeTurnstile(text, i)
    /\ text[i] # <<>>
    /\ ~startswith(text[i], <<"c", "a", "s", "e">>)
    /\ Colon(text[i]) # 0

\* The names left of the first colon of a line, and the type right of it.
NamesOf(line) == split(replace(SubSeq(line, 1, Colon(line) - 1), ",", " "))
TypeOf(line) == SubSeq(line, Colon(line) + 1, Len(line))

\* Where the names of a hypothesis line go.
ClassOf(line) ==
    LET type == TypeOf(line)
    IN IF contains(type, <<"=">>) THEN "eqs"
       ELSE IF \E token \in DisallowedTokens : contains(type, token) THEN "none"
       ELSE "induct"

\* The names of the hypothesis lines of one class, in line order.
NamesIn(text, class) ==
    Flatten([i \in 1..Len(text) |->
                IF HypothesisLine(text, i) /\ ClassOf(text[i]) = class
                THEN NamesOf(text[i]) ELSE <<>>])

\* C23: _parse_goal returns, for the hypothesis lines before the first
\* turnstile line (blank and case-marker lines skipped, lines without a colon
\* ignored), the names of the lines whose type contains an equality sign as
\* the equality sequence, disallowed tokens or not, and the names of the
\* lines whose type contains neither an equality sign nor a disallowed token
\* as the induction sequence; no other line contributes a name.
C23_Classification ==
    names_out # <<>> =>
        LET text == GoalText
        IN names_out[1] = [eqs |-> NamesIn(text, "eqs"), induct |-> NamesIn(text, "induct")]

\* The parser has read a definition line, whose type holds := and so an
\* equality sign, followed by a variable line.
C23_Witness ==
    /\ names_out # <<>>
    /\ gen_in.goal = LineLet \o <<NL>> \o LineVar
    /\ names_out[1] = [eqs |-> << <<"d">> >>, induct |-> << <<"n">> >>]

\* ---------------------------------------------------------------------
\* Completeness within the depth limit
\* ---------------------------------------------------------------------
\* The successful applications the backend has answered: state and result.
Applied ==
    {<<requests[i].state, requests[i].new>> :
        i \in {k \in 1..Len(requests) :
                  requests[k].answer = "ok" /\ requests[k].state # ProbeHandle}}

\* The states a chain of at most k successful applications leads to from the
\* root.
RECURSIVE WithinSteps(_)
WithinSteps(k) ==
    IF k = 0 THEN {root_state}
    ELSE LET near == WithinSteps(k - 1)
         IN near \cup {e[2] : e \in {a \in Applied : a[1] \in near}}

\* The backend showed no goals for the state.
Proved(s) == s \in DOMAIN state_goals /\ state_goals[s] = <<>>

\* C24: when the search has returned after a successful probe and the
\* backend's answers to candidate tactics hold a chain of at most max_depth
\* successful applications from the root to a state without goals, the
\* result is not empty, also when a state of the chain was first reached
\* and expanded along a longer path.
C24_Complete ==
    (pc = "done" /\ root_state # None /\ \E s \in WithinSteps(max_depth) : Proved(s))
        => result # <<>>

\* ---------------------------------------------------------------------
\* A traced search, then the same search without a trace against a backend
\* that behaves the same
\* ---------------------------------------------------------------------
\* What a finished call leaves to compare: the requests the backend logged,
\* and the returned list (none when the call raised).
Returned == IF pc = "done" THEN <<result>> ELSE <<>>

InitPair ==
    /\ Init
    /\ tracing

\* depth_first_search(level_path, max_depth) is called again, with trace=None,
\* on a restarted backend.
Again ==
    /\ Terminated
    /\ tracing
    /\ twin = <<>>
    /\ twin' = <<[requests |-> requests, returned |-> Returned]>>
    /\ tracing' = FALSE
    /\ trace0' = SearchGraph
    /\ trace' = SearchGraph
    /\ pc' = "probe"
    /\ root_state' = None
    /\ state_goals' = EmptyMap
    /\ solutions' = <<>>
    /\ stack' = <<>>
    /\ state_depth' = EmptyMap
    /\ explored_edges' = {}
    /\ state_id' = None
    /\ sequence' = <<>>
    /\ candidates' = <<>>
    /\ idx' = 0
    /\ children' = <<>>
    /\ result' = None
    /\ backend_goals' = <<>>
    /\ kills' = 0
    /\ requests' = <<>>
    /\ minArrival' = EmptyMap
    /\ expansions' = <<>>
    /\ pops' = <<>>
    /\ UNCHANGED <<max_depth, aside>>

\* The backend behaves as in the traced run: a request it received there at
\* the same place gets the answer it got there.
SameBackend ==
    (twin # <<>> /\ Len(requests') = Len(requests) + 1 /\ Len(requests') <= Len(twin[1].requests))
        => LET was == twin[1].requests[Len(requests')]
               now == requests'[Len(requests')]
           IN (was.state = now.state /\ was.tactic = now.tactic)
                 => /\ now.answer = was.answer
                    /\ now.new = was.new
                    /\ now.goals = was.goals

NextPair ==
    \/ Next /\ SameBackend
    \/ Again

SpecPair == InitPair /\ [][NextPair]_vars

\* C25: a search without a trace, run against the backend behaviour and with
\* the max_depth of a search that was given a SearchGraph, issues the same
\* sequence of backend requests and returns the same solution list.
C25_TraceWithoutInfluence ==
    twin # <<>> =>
        /\ IsPrefix(requests, twin[1].requests)
        /\ Terminated => /\ requests = twin[1].requests
                         /\ Returned = twin[1].returned

\* The untraced repetition of a traced search that wrote to a used graph has
\* returned a solution of two tactics after at least four requests.
C25_Witness ==
    /\ twin # <<>>
    /\ pc = "done"
    /\ Len(requests) >= 4
    /\ Len(result) = 1
    /\ Len(result[1]) = 2
    /\ requests = twin[1].requests
    /\ Returned = twin[1].returned

\* ---------------------------------------------------------------------
\* The trace a search leaves
\* ---------------------------------------------------------------------
\* The proof states the backend has answered with, the probe's included.
Observed ==
    {requests[i].new : i \in {k \in 1..Len(requests) : requests[k].answer = "ok"}}

\* The search was given a fresh SearchGraph and its probe succeeded.
TracedFresh == tracing /\ trace0 = SearchGraph /\ root_state # None

\* C26: at the end of a search that was given an empty trace and whose probe
\* succeeded, trace.root is the root state, trace.nodes holds exactly the
\* proof states the backend answered with, every node's depth is the
\* driver's best depth of its state, and trace.solutions is the returned
\* list.
C26_TraceMirrorsDriver ==
    (Terminated /\ TracedFresh) =>
        /\ trace.root = root_state
        /\ DOMAIN trace.nodes = Observed
        /\ DOMAIN state_depth = Observed
        /\ \A s \in DOMAIN trace.nodes : trace.nodes[s].depth = state_depth[s]
        /\ pc = "done" => trace.solutions = result

\* A traced search has returned a solution after the backend answered some
\* request with a state that was already known at a smaller depth.
C26_Witness ==
    /\ pc = "done"
    /\ TracedFresh
    /\ Len(result) = 1
    /\ \E i \in Applications :
          /\ requests[i].answer = "ok"
          /\ requests[i].depth + 1 > trace.nodes[requests[i].new].depth

\* The tactics of the requests the backend received for state s, in order;
\* and those of them it answered (server.run returned).
SubmittedFrom(s) ==
    LET from == SelectSeq(requests, LAMBDA r : r.state = s)
    IN [i \in 1..Len(from) |-> from[i].tactic]
AnsweredFrom(s) ==
    LET from == SelectSeq(requests, LAMBDA r : r.state = s /\ r.answer # "raise")
    IN [i \in 1..Len(from) |-> from[i].tactic]

\* The node lists the tactic once, as a success or as a failure.
OnceSettled(node, t) ==
    Cardinality({i \in 1..Len(node.successes) : node.successes[i][1] = t})
      + Cardinality({i \in 1..Len(node.failures) : node.failures[i] = t}) = 1

\* C27 as stated: in a trace filled by one search, every node's tactics_tried
\* is the sequence of tactics the driver submitted to the backend from that
\* state, in submission order and without repetition, and each of them is
\* once in the node's successes or failures.
C27_TriedIsSubmitted ==
    TracedFresh =>
        /\ \A i \in Applications : requests[i].state \in DOMAIN trace.nodes
        /\ \A s \in DOMAIN trace.nodes :
              /\ trace.nodes[s].tactics_tried = SubmittedFrom(s)
              /\ NoRepeat(trace.nodes[s].tactics_tried)
              /\ \A i \in 1..Len(trace.nodes[s].tactics_tried) :
                    OnceSettled(trace.nodes[s], trace.nodes[s].tactics_tried[i])

\* C27, amended: tactics_tried is the sequence of the submitted tactics that
\* the backend answered; a tactic on which server.run raised is in none of
\* the node's lists.
C27_TriedIsAnswered ==
    TracedFresh =>
        /\ \A i \in Applications : requests[i].state \in DOMAIN trace.nodes
        /\ \A s \in DOMAIN trace.nodes :
              /\ trace.nodes[s].tactics_tried = AnsweredFrom(s)
              /\ NoRepeat(trace.nodes[s].tactics_tried)
              /\ \A i \in 1..Len(trace.nodes[s].tactics_tried) :
                    OnceSettled(trace.nodes[s], trace.nodes[s].tactics_tried[i])
              /\ \A i \in 1..Len(SubmittedFrom(s)) :
                    (\A j \in 1..Len(AnsweredFrom(s)) : AnsweredFrom(s)[j] # SubmittedFrom(s)[i])
                        => /\ \A k \in 1..Len(trace.nodes[s].successes) :
                                 trace.nodes[s].successes[k][1] # SubmittedFrom(s)[i]
                           /\ \A k \in 1..Len(trace.nodes[s].failures) :
                                 trace.nodes[s].failures[k] # SubmittedFrom(s)[i]

\* The backend raised on the second tactic submitted from the root, after
\* answering the first: the root's node lists one tactic of two.
C27_Witness ==
    /\ pc = "raised"
    /\ TracedFresh
    /\ Len(SubmittedFrom(root_state)) = 2
    /\ Len(trace.nodes[root_state].tactics_tried) = 1
    /\ Len(trace.nodes[root_state].failures) = 1

\* ---------------------------------------------------------------------
\* Depth of a node under direct calls
\* ---------------------------------------------------------------------
\* The depths passed to record_node for state s so far.
RecordedDepths(s) ==
    {calls[i].depth :
        i \in {k \in 1..Len(calls) : calls[k].op = "record_node" /\ calls[k].state_id = s}}

\* C28: under any interleaving of record_attempt and record_node calls, the
\* depth of a node that record_node has been called for is the least depth
\* passed to record_node for its state, also when record_attempt created the
\* node before.
C28_DepthIsLeastRecorded ==
    \A s \in DOMAIN graph.nodes :
        RecordedDepths(s) # {} =>
            /\ graph.nodes[s].depth \in RecordedDepths(s)
            /\ \A d \in RecordedDepths(s) : graph.nodes[s].depth <= d

\* ---------------------------------------------------------------------
\* The work stack
\* ---------------------------------------------------------------------
\* C29: in every state of the driver, each item (state, path) on the stack
\* has len(path) <= max_depth + 1, the best-depth map holds a depth of at
\* most len(path) for its state, and a goal list is cached for its state.
C29_StackItems ==
    pc \in {"loop", "expand", "done", "raised"} =>
        \A i \in 1..Len(stack) :
            /\ Len(stack[i].path) <= max_depth + 1
            /\ stack[i].state \in DOMAIN state_depth
            /\ state_depth[stack[i].state] <= Len(stack[i].path)
            /\ stack[i].state \in DOMAIN state_goals

\* The stack holds two items, the upper one a step beyond the depth limit.
C29_Witness ==
    /\ pc = "loop"
    /\ max_depth >= 1
    /\ Len(stack) = 2
    /\ Len(stack[2].path) = max_depth + 1
    /\ Len(stack[1].path) = 1

\* ---------------------------------------------------------------------
\* Eager expansion
\* ---------------------------------------------------------------------
\* The backend has received tactic t for state s.
Requested(s, t) ==
    \E i \in Applications : requests[i].state = s /\ requests[i].tactic = t

\* Every candidate of the state expanded last is an explored edge that the
\* backend has received.
LastExpansionDone ==
    expansions # <<>> =>
        LET s == Last(expansions).state
            all == Candidates[state_goals[s][1]]
        IN \A i \in 1..Len(all) :
              <<s, all[i]>> \in explored_edges /\ Requested(s, all[i])

\* C30: an expansion is eager. When an item is popped or the loop ends, every
\* candidate of the state expanded last has been submitted; an answered
\* request of an expansion, with or without goals in the new state, leaves
\* the driver in the expansion; and the search returns a solution only by
\* popping an item whose state has no goals.
C30_EagerExpansion ==
    [][/\ (Popping \/ (pc = "loop" /\ pc' = "done")) => LastExpansionDone
       /\ (pc = "expand" /\ Submitting /\ Last(requests').answer # "raise")
             => /\ pc' = "expand"
                /\ result' = result
                /\ pops' = pops
       /\ (pc # "done" /\ pc' = "done" /\ result' # <<>>) => PoppingSolved]_vars

\* The search has returned a solution of one tactic although a later
\* candidate of the root was submitted after the one that proved the goal.
C30_Witness ==
    /\ pc = "done"
    /\ Len(result) = 1
    /\ \E i, j \in Applications :
          /\ i < j
          /\ requests[i].state = root_state
          /\ requests[j].state = root_state
          /\ requests[i].answer = "ok"
          /\ requests[i].goals = <<>>
          /\ result[1] = <<requests[i].tactic>>

====
